---------------------------- MODULE Spec2Model ----------------------------
(***************************************************************************)
(* A model of the vibertime extension: the bedtime scheduler               *)
(* (NotificationManager), the activity tracker (ActivityTracker), the      *)
(* provenance classifier (MetricsEngine) and the day-keyed statistics      *)
(* store (StorageManager).                                                 *)
(*                                                                         *)
(* Time is counted in milliseconds of local time since the local midnight  *)
(* of an arbitrary day 0; every instant of the model is positive, as       *)
(* Date.now() is.                                                          *)
(***************************************************************************)
EXTENDS Integers, Sequences, FiniteSets, TLC

VARIABLES
    wall,               \* Date.now()
    cfg,                \* the 'vibertime' configuration (ConfigManager)
    \* ---- NotificationManager ----
    debugTimeOffset,    \* _debugTimeOffset
    snoozedUntil,       \* _snoozedUntil
    softNudgeFired,     \* _softNudgeFired
    isHardStopActive,   \* _isHardStopActive
    dialogs,            \* unresolved showErrorMessage promises; each holds the
                        \* autoSnooze value its closure captured
    \* ---- observation of the scheduler (history, not program state) ----
    obs,                \* what the last scheduler step did
    shownSince,         \* hard-stop dialogs presented since the last snooze/reset
    lastSnooze,         \* time and minutes of the last snooze() not followed by reset()
    nudgeLog,           \* the soft nudges emitted and what has rearmed the nudge since
    nTicks,             \* scheduler ticks taken
    nEnv,               \* steps other than ticks taken
    \* ---- InputListener ----
    lastHumanTypeTime,  \* _lastHumanTypeTime
    lastPasteTime,      \* _lastPasteTime
    lastManualTime,     \* _lastManualTime (markManualInteraction has no caller)
    \* ---- ActivityTracker ----
    isFocused,          \* _isFocused
    zombieStartTimestamp, \* _zombieStartTimestamp; 0 stands for null (both are falsy)
    nextActivityTick,   \* when the setInterval callback of startTracking runs next
    \* ---- StorageManager ----
    history,            \* _history: session-day key -> DailyStats
    \* ---- MetricsEngine ----
    clipboardReads,     \* unresolved clipboard.readText() promises, with what each
                        \* closure captured
    \* ---- observation of the statistics (history, not program state) ----
    statObs,            \* what the last statistics step did
    ideal,              \* history, had every change whose clipboard check will match
                        \* been credited as a safe paste when it occurred
    tainted,            \* a reset or a rollover came between a change and its
                        \* clipboard check
    debugMutated,       \* a debug command has written a counter directly
    statLog,            \* totals over the document changes handled so far
    nStatTicks,         \* activity ticks taken
    nStatEnv,           \* statistics steps other than ticks and clock steps taken
    \* ---- the extension host and the timers of the components ----
    running,            \* the extension host process has not exited
    trackingInterval,   \* ActivityTracker._trackingInterval is set and not cleared
    checkInterval,      \* NotificationManager._checkInterval is set and not cleared
    subscribed,         \* the listeners in the _disposables of ActivityTracker and
                        \* MetricsEngine are registered
    \* ---- StorageManager, persistence ----
    debounceTimer,      \* when the timeout of _debounceTimer is due; 0: none pending
    historyFile,        \* the history last written to viber-history.json
    \* ---- observation of the persistence (history, not program state) ----
    saveLog,            \* the writes and the save requests so far
    \* ---- UpdateManager ----
    update,             \* globalState 'lastNotifiedVersion', the release published
                        \* and the checkForUpdates calls in flight
    \* ---- the slot machine of the dashboard (Machine, Dashboard) ----
    slot                \* phase, shotsLeft, gameActive and what the run has reported

schedVars == <<debugTimeOffset, snoozedUntil, softNudgeFired, isHardStopActive,
               dialogs, obs, shownSince, lastSnooze, nudgeLog, nTicks, nEnv>>

statsVars == <<lastHumanTypeTime, lastPasteTime, lastManualTime, isFocused,
               zombieStartTimestamp, nextActivityTick, history, clipboardReads,
               statObs, ideal, tainted, debugMutated, statLog, nStatTicks,
               nStatEnv>>

hostVars == <<running, trackingInterval, checkInterval, subscribed>>

storeVars == <<debounceTimer, historyFile, saveLog>>

\* what the scheduler and the statistics steps leave alone
extVars == <<hostVars, historyFile, saveLog, update, slot>>

\* the same, for a step that may make the record of a new day
extRest == <<hostVars, historyFile, saveLog, slot>>

vars == <<wall, cfg, schedVars, statsVars, hostVars, storeVars, update, slot>>

----------------------------------------------------------------------------
(* Bounds of the model *)

MaxTicks == 9
MaxEnv == 3
MaxDialogs == 2
MaxStatTicks == 2
MaxStatEnv == 3
MaxClipboardReads == 2

----------------------------------------------------------------------------
(* Program constants *)

MsPerMinute == 60000
MsPerHour == 60 * MsPerMinute
MsPerDay == 24 * MsPerHour

TickMs == 1000                 \* setInterval period of the scheduler
GraceMs == 2000                \* "Grace Buffer: Wait 2s past zero"
HardStopFloorMs == 60000       \* diffMs > -60000
TriggerHalfWidthMs == 1500     \* Math.abs(...) < 1500
NudgeResetMs == 60000          \* diffMs > nudgeMs + 60000

DashboardSnoozeChoices == {30, 60}

----------------------------------------------------------------------------
(* JavaScript Date arithmetic on local time (no DST change in the window) *)

Abs(x) == IF x < 0 THEN -x ELSE x

\* Date.prototype.getHours
getHours(t) == (t \div MsPerHour) % 24

\* d.setDate(d.getDate() + n)
addDays(t, n) == t + n * MsPerDay

\* d.setHours(h, m, s, 0)
setHours(t, h, m, s) == (t - (t % MsPerDay)) + h * MsPerHour + m * MsPerMinute + s * 1000

----------------------------------------------------------------------------
(* Parsing "HH:MM": bedtime.split(':').map(Number) *)

Digits == <<"0", "1", "2", "3", "4", "5", "6", "7", "8", "9">>

IsDigit(ch) == \E i \in 1..10 : Digits[i] = ch

DigitValue(ch) == (CHOOSE i \in 1..10 : Digits[i] = ch) - 1

RECURSIVE splitAt(_, _)
\* String.prototype.split(sep), on a sequence of characters
splitAt(str, sep) ==
    IF \A i \in 1..Len(str) : str[i] # sep
    THEN <<str>>
    ELSE LET k == CHOOSE i \in 1..Len(str) :
                      str[i] = sep /\ \A j \in 1..(i - 1) : str[j] # sep
         IN  <<SubSeq(str, 1, k - 1)>> \o splitAt(SubSeq(str, k + 1, Len(str)), sep)

\* Number(s) is NaN unless s is empty or all digits (signs, blanks, fractions
\* and exponents do not occur in the bedtimes of the model)
isNumeric(str) == \A i \in 1..Len(str) : IsDigit(str[i])

RECURSIVE toNumber(_)
toNumber(str) ==
    IF str = <<>> THEN 0
    ELSE 10 * toNumber(SubSeq(str, 1, Len(str) - 1)) + DigitValue(str[Len(str)])

\* const [bedH, bedM] = bedtime.split(':').map(Number): neither is NaN/undefined
bedtimeParses(bedtime) ==
    LET parts == splitAt(bedtime, ":")
    IN  Len(parts) >= 2 /\ isNumeric(parts[1]) /\ isNumeric(parts[2])

bedHour(bedtime) == toNumber(splitAt(bedtime, ":")[1])
bedMinute(bedtime) == toNumber(splitAt(bedtime, ":")[2])

----------------------------------------------------------------------------
(* Configuration values of the model *)

Bedtime2300 == <<"2", "3", ":", "0", "0">>
Bedtime0100 == <<"0", "1", ":", "0", "0">>

DefaultCfg == [bedtime |-> Bedtime2300, dayStartHour |-> 4,
               softNudgeMinutes |-> 30, autoSnoozeMinutes |-> 60,
               idleTimeoutSeconds |-> 30]

CfgSet == {DefaultCfg,
           [DefaultCfg EXCEPT !.autoSnoozeMinutes = 1],
           [DefaultCfg EXCEPT !.bedtime = Bedtime0100]}

----------------------------------------------------------------------------
(* NotificationManager *)

\* now(): new Date(Date.now() + this._debugTimeOffset)
now == wall + debugTimeOffset

\* mutation: the minutes are scaled as seconds
snoozeTargetInSeconds(t, minutes) == t + minutes * 1000

\* mutation: a snooze that is still running is extended
snoozeTargetStacked(t, minutes) ==
    IF snoozedUntil > t THEN snoozedUntil + minutes * MsPerMinute
    ELSE t + minutes * MsPerMinute

\* snooze(minutes): the value assigned to _snoozedUntil
snoozeTarget(t, minutes) == t + minutes * MsPerMinute

\* isSnoozed()
isSnoozed == now < snoozedUntil

\* mutation: the snooze is not looked at
getTargetBedtimeTimestampUnsnoozed(su, t, c) ==
    LET bedH == bedHour(c.bedtime)
        bedM == bedMinute(c.bedtime)
        sessionDate == IF getHours(t) < c.dayStartHour THEN t - MsPerDay ELSE t
        targetDate == (sessionDate - (sessionDate % MsPerDay))
                          + bedH * MsPerHour + bedM * MsPerMinute
    IN  IF bedH < c.dayStartHour THEN targetDate + MsPerDay ELSE targetDate

\* mutation: the session date is always the calendar date of now
getTargetBedtimeTimestampNoSession(su, t, c) ==
    IF su > 0 THEN su
    ELSE LET bedH == bedHour(c.bedtime)
             bedM == bedMinute(c.bedtime)
             targetDate == setHours(t, bedH, bedM, 0)
         IN  IF bedH < c.dayStartHour THEN addDays(targetDate, 1) ELSE targetDate

\* mutation: a bedtime before the day start hour is not moved to the next day
getTargetBedtimeTimestampSameDay(su, t, c) ==
    IF su > 0 THEN su
    ELSE LET bedH == bedHour(c.bedtime)
             bedM == bedMinute(c.bedtime)
             sessionDate == IF getHours(t) < c.dayStartHour THEN addDays(t, -1) ELSE t
         IN  setHours(sessionDate, bedH, bedM, 0)

\* getTargetBedtimeTimestamp(), for a bedtime that parses
getTargetBedtimeTimestamp(su, t, c) ==
    IF su > 0 THEN su
    ELSE LET bedH == bedHour(c.bedtime)
             bedM == bedMinute(c.bedtime)
             sessionDate == IF getHours(t) < c.dayStartHour THEN addDays(t, -1) ELSE t
             targetDate == setHours(sessionDate, bedH, bedM, 0)
         IN  IF bedH < c.dayStartHour THEN addDays(targetDate, 1) ELSE targetDate

\* the result is NaN (Invalid Date) when no snooze is set and bedtime does not parse
targetIsNaN(su, c) == ~(su > 0) /\ ~bedtimeParses(c.bedtime)

\* mutation: the trigger window is half a second wide
hardStopConditionNarrow(diffMs) ==
    /\ diffMs <= -GraceMs
    /\ diffMs > -HardStopFloorMs
    /\ Abs(diffMs + GraceMs) < 500

\* checkTime: the condition under which it calls triggerHardStop
hardStopCondition(diffMs) ==
    /\ diffMs <= -GraceMs
    /\ diffMs > -HardStopFloorMs
    /\ Abs(diffMs + GraceMs) < TriggerHalfWidthMs

\* mutation: the nudge is emitted whether or not it has fired
softNudgeConditionUnguarded(diffMs, nudgeMs, fired) ==
    Abs(diffMs - nudgeMs) < TriggerHalfWidthMs

\* checkTime: the condition of the soft nudge
softNudgeCondition(diffMs, nudgeMs, fired) ==
    Abs(diffMs - nudgeMs) < TriggerHalfWidthMs /\ ~fired

\* checkTime: the condition that rearms the soft nudge
softNudgeResetCondition(diffMs, nudgeMs) == diffMs > nudgeMs + NudgeResetMs

\* mutation: the re-entrancy guard is dropped
hardStopGuardDropped(active) == FALSE

\* triggerHardStop: "if (this._isHardStopActive) return"
hardStopGuard(active) == active

NoObs == [op |-> "none", diff |-> 0, nan |-> FALSE, active |-> FALSE,
          presented |-> FALSE, nudged |-> FALSE, sel |-> "", captured |-> 0,
          fired |-> FALSE, minutes |-> 0, snoozedBefore |-> 0, target |-> 0,
          arg |-> 0, result |-> ""]

\* nudges: the nudges ticks have emitted (2 stands for two or more); target: the
\* deadline of the last nudge emitted; tickRearm / anyRearm: since the last nudge a
\* tick emitted, a tick / a time check has met the rearming condition, or reset()
\* has run; betweenTick / betweenAny: their values when a tick last emitted a nudge
NoNudgeLog == [nudges |-> 0, target |-> 0, tickRearm |-> FALSE, anyRearm |-> FALSE,
               betweenTick |-> FALSE, betweenAny |-> FALSE]

\* the log after a time check that emitted a nudge (nudge) or rearmed it (rearm)
logCheck(log, op, nudge, rearm, target) ==
    IF nudge /\ op = "tick"
    THEN [nudges |-> IF log.nudges = 0 THEN 1 ELSE 2, target |-> target,
          tickRearm |-> FALSE, anyRearm |-> FALSE,
          betweenTick |-> log.tickRearm, betweenAny |-> log.anyRearm]
    ELSE IF nudge THEN [log EXCEPT !.target = target]
    ELSE IF rearm
    THEN [log EXCEPT !.anyRearm = TRUE, !.tickRearm = @ \/ op = "tick"]
    ELSE log

\* triggerHardStop(), called at a step whose observation is o
triggerHardStop(c, o) ==
    IF hardStopGuard(isHardStopActive)
    THEN /\ UNCHANGED <<isHardStopActive, dialogs, shownSince>>
         /\ obs' = o
    ELSE /\ Len(dialogs) < MaxDialogs
         /\ isHardStopActive' = TRUE
         /\ dialogs' = Append(dialogs, c.autoSnoozeMinutes)
         /\ shownSince' = shownSince + 1
         /\ obs' = [o EXCEPT !.presented = TRUE]

\* checkTime() at scheduler time t, under configuration c; op names the caller
checkTime(t, c, op) ==
    LET nan == targetIsNaN(snoozedUntil, c)
        diffMs == IF nan THEN 0 ELSE getTargetBedtimeTimestamp(snoozedUntil, t, c) - t
        nudgeMs == c.softNudgeMinutes * 60 * 1000
        o == [NoObs EXCEPT !.op = op, !.diff = diffMs, !.nan = nan,
                           !.active = isHardStopActive, !.fired = softNudgeFired]
    IN  IF ~nan /\ hardStopCondition(diffMs)
        THEN /\ triggerHardStop(c, o)
             /\ UNCHANGED <<softNudgeFired, nudgeLog>>
        ELSE LET nudge == ~nan /\ softNudgeCondition(diffMs, nudgeMs, softNudgeFired)
                 fired1 == IF nudge THEN TRUE ELSE softNudgeFired
                 rearm == ~nan /\ softNudgeResetCondition(diffMs, nudgeMs)
                 fired2 == IF rearm THEN FALSE ELSE fired1
             IN  /\ softNudgeFired' = fired2
                 /\ obs' = [o EXCEPT !.nudged = nudge]
                 /\ nudgeLog' = logCheck(nudgeLog, op, nudge, rearm, t + diffMs)
                 /\ UNCHANGED <<isHardStopActive, dialogs, shownSince>>

\* The setInterval callback of startScheduler, one period after the previous one
SchedulerTick ==
    /\ checkInterval
    /\ UNCHANGED <<statsVars, debounceTimer, extVars>>
    /\ nTicks < MaxTicks
    /\ nTicks' = nTicks + 1
    /\ wall' = wall + TickMs
    /\ checkTime(wall + TickMs + debugTimeOffset, cfg, "tick")
    /\ UNCHANGED <<cfg, debugTimeOffset, snoozedUntil, lastSnooze, nEnv>>

\* setupConfigListener: a change of the configuration forces a time check
ConfigChanged(c) ==
    /\ UNCHANGED <<statsVars, debounceTimer, extVars>>
    /\ nEnv < MaxEnv
    /\ nEnv' = nEnv + 1
    /\ c # cfg
    /\ cfg' = c
    /\ checkTime(now, c, "config")
    /\ UNCHANGED <<wall, debugTimeOffset, snoozedUntil, lastSnooze, nTicks>>

\* snooze(minutes)
snooze(minutes) ==
    /\ snoozedUntil' = snoozeTarget(now, minutes)
    /\ lastSnooze' = [at |-> now, minutes |-> minutes]
    /\ shownSince' = 0

\* DashboardPanel, case "snooze": message.minutes || 30
DashboardSnooze(m) ==
    /\ UNCHANGED <<statsVars, debounceTimer, extVars>>
    /\ nEnv < MaxEnv
    /\ nEnv' = nEnv + 1
    /\ snooze(m)
    /\ obs' = [NoObs EXCEPT !.op = "snooze", !.minutes = m,
                            !.snoozedBefore = snoozedUntil,
                            !.target = IF targetIsNaN(snoozedUntil, cfg) THEN 0
                                       ELSE getTargetBedtimeTimestamp(snoozedUntil,
                                                                      now, cfg)]
    /\ UNCHANGED <<wall, cfg, debugTimeOffset, softNudgeFired, isHardStopActive,
                   dialogs, nudgeLog, nTicks>>

\* mutation: every resolution snoozes for the auto-snooze duration
resolutionMinutesAlwaysAuto(selection, autoSnooze) == autoSnooze

\* the minutes a resolution of the dialog snoozes for
resolutionMinutes(selection, autoSnooze) ==
    IF selection = "Snooze 30m" THEN 30
    ELSE IF selection = "Snooze 1h" THEN 60
    ELSE IF selection = "Snooze 2h" THEN 120
    ELSE autoSnooze

Selections == {"Snooze 30m", "Snooze 1h", "Snooze 2h", "dismissed"}

\* mutation: the lock is not released when the dialog resolves
lockAfterResolutionKept == TRUE

\* "this._isHardStopActive = false; // Release Lock"
lockAfterResolution == FALSE

\* the .then callback of showErrorMessage in triggerHardStop
ResolveDialog(i, selection) ==
    /\ UNCHANGED <<statsVars, debounceTimer, extVars>>
    /\ nEnv < MaxEnv
    /\ nEnv' = nEnv + 1
    /\ i \in 1..Len(dialogs)
    /\ isHardStopActive' = lockAfterResolution
    /\ snooze(resolutionMinutes(selection, dialogs[i]))
    /\ dialogs' = SubSeq(dialogs, 1, i - 1) \o SubSeq(dialogs, i + 1, Len(dialogs))
    /\ obs' = [NoObs EXCEPT !.op = "resolve", !.sel = selection, !.captured = dialogs[i],
                            !.minutes = resolutionMinutes(selection, dialogs[i]),
                            !.snoozedBefore = snoozedUntil]
    /\ UNCHANGED <<wall, cfg, debugTimeOffset, softNudgeFired, nudgeLog, nTicks>>

\* triggerHardStop() called from the debug panel or a debug command
ManualHardStop ==
    /\ UNCHANGED <<statsVars, debounceTimer, extVars>>
    /\ nEnv < MaxEnv
    /\ nEnv' = nEnv + 1
    /\ triggerHardStop(cfg, [NoObs EXCEPT !.op = "manual", !.active = isHardStopActive])
    /\ UNCHANGED <<wall, cfg, debugTimeOffset, snoozedUntil, softNudgeFired,
                   lastSnooze, nudgeLog, nTicks>>

\* mutation: reset() clears the snooze alone
resetSnoozeOnly ==
    /\ snoozedUntil' = 0
    /\ UNCHANGED softNudgeFired
    /\ lastSnooze' = [at |-> 0, minutes |-> 0]
    /\ shownSince' = 0
    /\ obs' = [NoObs EXCEPT !.op = "reset", !.snoozedBefore = snoozedUntil,
                            !.fired = softNudgeFired, !.active = isHardStopActive]
    /\ nudgeLog' = [nudgeLog EXCEPT !.tickRearm = TRUE, !.anyRearm = TRUE]

\* reset()
reset ==
    /\ snoozedUntil' = 0
    /\ softNudgeFired' = FALSE
    /\ lastSnooze' = [at |-> 0, minutes |-> 0]
    /\ shownSince' = 0
    /\ obs' = [NoObs EXCEPT !.op = "reset", !.snoozedBefore = snoozedUntil,
                            !.fired = softNudgeFired, !.active = isHardStopActive]
    /\ nudgeLog' = [nudgeLog EXCEPT !.tickRearm = TRUE, !.anyRearm = TRUE]

\* debugSetTime("HH:MM:SS"): the simulated clock jumps to that time of the wall date
DebugSetTime(h, m, s) ==
    /\ UNCHANGED <<statsVars, debounceTimer, extVars>>
    /\ nEnv < MaxEnv
    /\ nEnv' = nEnv + 1
    /\ debugTimeOffset' = setHours(wall, h, m, s) - wall
    /\ obs' = [NoObs EXCEPT !.op = "debugSetTime"]
    /\ UNCHANGED <<wall, cfg, snoozedUntil, softNudgeFired, isHardStopActive, dialogs,
                   shownSince, lastSnooze, nudgeLog, nTicks>>

\* ActivityTracker.EARLY_BUFFER_MS and LATE_BUFFER_MS
EarlyBufferMs == 30 * 60 * 1000
LateBufferMs == 2 * 60 * 60 * 1000

\* mutation: the two ends of the accepted interval are rejected
handleSnoozeExclusive(t, targetBedtimeMs) ==
    IF t <= targetBedtimeMs - EarlyBufferMs THEN "TOO_EARLY"
    ELSE IF t >= targetBedtimeMs + LateBufferMs THEN "STALE_RESET"
    ELSE "success"

\* ActivityTracker.handleSnooze(targetBedtimeMs), t being its Date.now()
handleSnooze(t, targetBedtimeMs) ==
    IF t < targetBedtimeMs - EarlyBufferMs THEN "TOO_EARLY"
    ELSE IF t > targetBedtimeMs + LateBufferMs THEN "STALE_RESET"
    ELSE "success"

\* a call of handleSnooze: it reads the clock and returns
HandleSnooze(targetBedtimeMs) ==
    /\ UNCHANGED <<statsVars, debounceTimer, extVars>>
    /\ nEnv < MaxEnv
    /\ nEnv' = nEnv + 1
    /\ obs' = [NoObs EXCEPT !.op = "handleSnooze", !.arg = targetBedtimeMs,
                            !.result = handleSnooze(wall, targetBedtimeMs)]
    /\ UNCHANGED <<wall, cfg, debugTimeOffset, snoozedUntil, softNudgeFired,
                   isHardStopActive, dialogs, shownSince, lastSnooze, nudgeLog, nTicks>>

\* The host is suspended (or the event loop stalls): time passes and no tick runs
Suspend(d) ==
    /\ UNCHANGED <<statsVars, debounceTimer, extVars>>
    /\ nEnv < MaxEnv
    /\ nEnv' = nEnv + 1
    /\ wall' = wall + d
    /\ obs' = [NoObs EXCEPT !.op = "suspend"]
    /\ UNCHANGED <<cfg, debugTimeOffset, snoozedUntil, softNudgeFired, isHardStopActive,
                   dialogs, shownSince, lastSnooze, nudgeLog, nTicks>>

\* the local midnight that starts day 1
Day1 == MsPerDay

----------------------------------------------------------------------------
(* Constants of the statistics components *)

PasteFreshMs == 100            \* msSincePaste < 100
TypeFreshMs == 100             \* msSinceType < 100
AiMinLen == 5                  \* len > 5
ClipboardMinLen == 50          \* len > 50
RevivalHumanMs == 1000         \* msSinceHuman < 1000
IdleTimeoutMs == 30000         \* msSinceInput < 30000
TypingMs == 2000               \* msSinceInput < 2000
ZombieRevivalWindowMs == 300000
ActivityTickMs == 1000         \* setInterval period of the activity loop

----------------------------------------------------------------------------
(* StorageManager *)

SaveDebounceMs == 1000         \* setTimeout(..., 1000) of requestSave

\* mutation: the save is not delayed
requestSaveUndelayed(t) == t

\* requestSave() at time t: the pending timeout is cleared and a new one is set;
\* the value is when the new one is due
requestSave(t) == t + SaveDebounceMs

\* the host's zone, as an offset from UTC: the model runs in UTC
utcOffsetMs == 0 * MsPerHour

\* d.toISOString().split('T')[0]: the UTC date, held as its day number
toISODate(t) == (t - utcOffsetMs) \div MsPerDay

\* getTodayKey()
getTodayKey(t, c) ==
    toISODate(IF getHours(t) < c.dayStartHour THEN addDays(t, -1) ELSE t)

\* getEmptyStats(date)
getEmptyStats(date) ==
    [date |-> date,
     activeSeconds |-> 0, typingSeconds |-> 0, reviewingSeconds |-> 0,
     humanTypedLines |-> 0, humanRefactoredLines |-> 0,
     aiGeneratedLines |-> 0, aiEditedLines |-> 0,
     humanChars |-> 0, aiChars |-> 0, refactorChars |-> 0]

NoHistory == [k \in {} |-> getEmptyStats(k)]

\* getToday() / the head of updateToday(): the record of the key, made if missing
withToday(h, key) ==
    IF key \in DOMAIN h THEN h
    ELSE [k \in DOMAIN h \cup {key} |-> IF k = key THEN getEmptyStats(key) ELSE h[k]]

\* mutation: the updater is run on the record the history held first, a copy
\* kept across the rollover
storeTodayCached(h, key, rec) ==
    IF DOMAIN h = {} THEN [withToday(h, key) EXCEPT ![key] = rec]
    ELSE LET first == CHOOSE k \in DOMAIN h : \A j \in DOMAIN h : k <= j
         IN  [withToday(h, key) EXCEPT ![first] = rec]

\* updateToday(updater), the updater given by the record it leaves
storeToday(h, key, rec) == [withToday(h, key) EXCEPT ![key] = rec]

todayOf(h, key) == withToday(h, key)[key]

----------------------------------------------------------------------------
(* UpdateManager *)

\* a version is the numbers between the dots of "x.y.z"; <<>> stands for a
\* globalState key never written
NoVersion == <<>>

\* this._context.extension.packageJSON.version
LocalVersion == <<1, 0, 0>>

\* release.tag_name.replace(/^v/, ''): a tag is a version, with or without 'v'
cleanVersion(tag) == tag.version

\* p[i] || 0
versionPart(p, i) == IF i <= Len(p) THEN p[i] ELSE 0

RECURSIVE isUpdateAvailableFrom(_, _, _)
\* the loop of isUpdateAvailable from part i on
isUpdateAvailableFrom(p1, p2, i) ==
    IF i > Len(p1) /\ i > Len(p2) THEN FALSE
    ELSE IF versionPart(p2, i) > versionPart(p1, i) THEN TRUE
    ELSE IF versionPart(p1, i) > versionPart(p2, i) THEN FALSE
    ELSE isUpdateAvailableFrom(p1, p2, i + 1)

\* isUpdateAvailable(current, remote)
isUpdateAvailable(current, remote) == isUpdateAvailableFrom(current, remote, 1)

\* "Spam Prevention (Auto Mode)": the check ends without a notification
silenced(isManual, lastNotified, remoteVersion) ==
    ~isManual /\ lastNotified = remoteVersion

\* a call of checkForUpdates: "timer" while its setTimeout is pending,
\* "fetching" while it awaits fetchJson, "showing" while it awaits
\* showInformationMessage
timerCheck == [pc |-> "timer", isManual |-> FALSE, remoteVersion |-> NoVersion]

\* the release the model starts with
FirstTag == [v |-> TRUE, version |-> <<1, 0, 1>>]

\* lastNotifiedVersion: globalState 'lastNotifiedVersion'; release: what the
\* releases API serves; checks: the calls of checkForUpdates under way, the
\* first being the one activate() schedules; notified: the "is available"
\* notifications shown so far (history, not program state); manual: manual
\* checks requested so far
NoUpdate == [lastNotifiedVersion |-> NoVersion,
             release |-> FirstTag,
             checks |-> <<timerCheck>>,
             notified |-> <<>>,
             manual |-> 0]

\* the hook of getToday(): a record made for a new day schedules a check
afterGetToday(u, h, h2) ==
    IF DOMAIN h2 \subseteq DOMAIN h THEN u
    ELSE [u EXCEPT !.checks = Append(@, timerCheck)]

----------------------------------------------------------------------------
(* The slot machine: the slotState of a day's record, the game state of    *)
(* the Dashboard and the phase of the Machine                              *)

COLS == 5
MAX_CYCLES == 2

\* getEmptyStats, slotState: the fields the game reads
DefaultSlotState == [runsRemaining |-> 1, currentEnergy |-> 3, currentScore |-> 0]

\* the slotState of the record of a day; a day without an entry has the one
\* getEmptyStats gives it
slotStateOf(saved, key) ==
    IF key \in DOMAIN saved THEN saved[key] ELSE DefaultSlotState

\* the records with the slotState of a day replaced
withSlotState(saved, key, st) ==
    IF st = DefaultSlotState
    THEN [k \in DOMAIN saved \ {key} |-> saved[k]]
    ELSE [k \in DOMAIN saved \cup {key} |-> IF k = key THEN st ELSE saved[k]]

\* the slotState the webview holds once it has received all that is on its way
lastSent(sl) ==
    IF sl.toView = <<>> THEN sl.props ELSE sl.toView[Len(sl.toView)]

\* sendUpdate(): the 'update' message; one that repeats the slotState before it
\* changes none of the dependencies of the effect that reads it
sendUpdate(sl, st) ==
    IF lastSent(sl) = st THEN sl ELSE [sl EXCEPT !.toView = Append(@, st)]

\* Dashboard: useState(() => ...) from props.slotState
initialGameState(sl, st) ==
    [sl EXCEPT !.shotsLeft = st.currentEnergy,
               !.totalScore = st.currentScore,
               !.gameOver = (st.runsRemaining <= 0),
               !.props = st,
               !.startEnergy = st.currentEnergy]

\* phase, stopped, cycleCount, wins: the state of the Machine; shotsLeft,
\* totalScore, gameOver: the gameState of the Dashboard; props: props.slotState;
\* saved: the slotState of the records; toHost, toView: the messages under way;
\* spins, reports, startEnergy, path, debugs, debugResets: the spins started
\* and the results reported since the dashboard was opened, the energy it was
\* opened with, the phases of the spin under way or last made, the debug
\* buttons pressed and the RESET SLOT presses among them (history, not
\* program state)
SlotBlank == [phase |-> "IDLE", stopped |-> 0, cycleCount |-> 0, wins |-> FALSE,
              shotsLeft |-> 3, totalScore |-> 0, gameOver |-> FALSE,
              props |-> DefaultSlotState,
              saved |-> [k \in {} |-> DefaultSlotState],
              toHost |-> <<>>, toView |-> <<>>,
              spins |-> 0, reports |-> 0, startEnergy |-> 3,
              path |-> <<>>, debugs |-> 0, debugResets |-> 0]

\* the dashboard opened on a day whose record has the slotState of getEmptyStats
NoSlot == initialGameState(SlotBlank, DefaultSlotState)

\* ActivityTracker.resetForNewDay(), "Reset slot machine state", then sendUpdate()
afterSlotReset(sl, key) ==
    sendUpdate([sl EXCEPT !.saved = withSlotState(@, key, DefaultSlotState)],
               DefaultSlotState)

----------------------------------------------------------------------------
(* InputListener *)

Max(a, b) == IF a >= b THEN a ELSE b

\* timeSinceHumanInput
timeSinceHumanInput(t) == t - Max(lastHumanTypeTime, lastManualTime)

\* timeSincePaste
timeSincePaste(t) == t - lastPasteTime

----------------------------------------------------------------------------
(* MetricsEngine: the classifier of onDidChangeTextDocument.  A content     *)
(* change is held as [len, lines, deleted, rangeLength]: the length of its  *)
(* text, the newlines in it, range.end.line - range.start.line, and the    *)
(* length of the range it replaced.                                        *)

\* mutation: a paste is fresh up to and including 100 ms
isSafePasteInclusive(msSincePaste) == msSincePaste <= PasteFreshMs

\* CASE 1
isSafePaste(msSincePaste) == msSincePaste < PasteFreshMs

\* CASE 2
isFreshTyping(msSinceType) == msSinceType < TypeFreshMs

\* CASE 3
isMachineBurst(len) == len > AiMinLen

\* "Fallback: Clipboard check"
wantsClipboardCheck(len) == len > ClipboardMinLen

\* the credit of a safe paste
creditPaste(s, len, lines) ==
    [s EXCEPT !.refactorChars = @ + len, !.humanRefactoredLines = @ + lines]

\* the credit of human typing
creditTyped(s, len, lines) ==
    [s EXCEPT !.humanChars = @ + len, !.humanTypedLines = @ + lines]

\* mutation: CASE 3 credits both AI line counters
creditAiBothLines(s, len, lines, rangeLength) ==
    [s EXCEPT !.aiChars = @ + len, !.aiEditedLines = @ + lines,
              !.aiGeneratedLines = @ + lines]

\* the credit of CASE 3
creditAi(s, len, lines, rangeLength) ==
    IF rangeLength > 0
    THEN [s EXCEPT !.aiChars = @ + len, !.aiEditedLines = @ + lines]
    ELSE [s EXCEPT !.aiChars = @ + len, !.aiGeneratedLines = @ + lines]

\* mutation: the paste rule is tried before the deletion rule
classifyChangePasteFirst(s, ch, msSinceType, msSincePaste) ==
    IF isSafePaste(msSincePaste) THEN creditPaste(s, ch.len, ch.lines)
    ELSE IF ch.len = 0
    THEN IF ch.deleted > 0
         THEN [s EXCEPT !.humanRefactoredLines = @ + ch.deleted]
         ELSE s
    ELSE IF isFreshTyping(msSinceType) THEN creditTyped(s, ch.len, ch.lines)
    ELSE IF isMachineBurst(ch.len) THEN creditAi(s, ch.len, ch.lines, ch.rangeLength)
    ELSE creditTyped(s, ch.len, ch.lines)

\* the body of the loop over e.contentChanges, for one change
classifyChange(s, ch, msSinceType, msSincePaste) ==
    IF ch.len = 0
    THEN IF ch.deleted > 0
         THEN [s EXCEPT !.humanRefactoredLines = @ + ch.deleted]
         ELSE s
    ELSE IF isSafePaste(msSincePaste) THEN creditPaste(s, ch.len, ch.lines)
    ELSE IF isFreshTyping(msSinceType) THEN creditTyped(s, ch.len, ch.lines)
    ELSE IF isMachineBurst(ch.len) THEN creditAi(s, ch.len, ch.lines, ch.rangeLength)
    ELSE creditTyped(s, ch.len, ch.lines)

\* whether the loop body starts a clipboard read for the change
startsClipboardRead(ch, msSinceType, msSincePaste) ==
    /\ ch.len # 0
    /\ ~isSafePaste(msSincePaste)
    /\ ~isFreshTyping(msSinceType)
    /\ isMachineBurst(ch.len)
    /\ wantsClipboardCheck(ch.len)

\* mutation: only the first content change of an event is handled
classifyFirstChangeOnly(s, changes, msSinceType, msSincePaste) ==
    classifyChange(s, Head(changes), msSinceType, msSincePaste)

RECURSIVE classifyChanges(_, _, _, _)
\* the loop over e.contentChanges
classifyChanges(s, changes, msSinceType, msSincePaste) ==
    IF changes = <<>> THEN s
    ELSE classifyChanges(classifyChange(s, Head(changes), msSinceType, msSincePaste),
                         Tail(changes), msSinceType, msSincePaste)

\* mutation: the clipboard check moves the characters and leaves the lines
clipboardCorrectionCharsOnly(s, len, lines, rangeLength) ==
    [s EXCEPT !.aiChars = @ - len, !.refactorChars = @ + len]

\* the updater of the clipboard check, run when the clipboard holds the text
clipboardCorrection(s, len, lines, rangeLength) ==
    LET a == IF rangeLength > 0
             THEN [s EXCEPT !.aiChars = @ - len, !.aiEditedLines = @ - lines]
             ELSE [s EXCEPT !.aiChars = @ - len, !.aiGeneratedLines = @ - lines]
    IN  creditPaste(a, len, lines)

\* reset(): the metrics fields are cleared
metricsReset(s) ==
    [s EXCEPT !.humanChars = 0, !.aiChars = 0, !.refactorChars = 0,
              !.humanTypedLines = 0, !.humanRefactoredLines = 0,
              !.aiGeneratedLines = 0, !.aiEditedLines = 0]

----------------------------------------------------------------------------
(* ActivityTracker *)

\* the tick: isActive
isActive(focused, msSinceInput) == focused /\ msSinceInput < IdleTimeoutMs

\* mutation: every active second is a typing second
creditActiveSecondTyping(s, msSinceInput) ==
    [s EXCEPT !.activeSeconds = @ + 1, !.typingSeconds = @ + 1]

\* the tick: the updater of an active second
creditActiveSecond(s, msSinceInput) ==
    IF msSinceInput < TypingMs
    THEN [s EXCEPT !.activeSeconds = @ + 1, !.typingSeconds = @ + 1]
    ELSE [s EXCEPT !.activeSeconds = @ + 1, !.reviewingSeconds = @ + 1]

\* the revival listener: isHumanInput
isHumanInput(msSinceHuman) == msSinceHuman < RevivalHumanMs

\* mutation: the revival window includes its end
revivalSecondsInclusive(zombie, t) ==
    IF zombie # 0 /\ t - zombie <= ZombieRevivalWindowMs
    THEN (t - zombie) \div 1000
    ELSE 0

\* the revival listener: the seconds a revival adds (0: none)
revivalSeconds(zombie, t) ==
    IF zombie # 0 /\ t - zombie < ZombieRevivalWindowMs
    THEN (t - zombie) \div 1000
    ELSE 0

\* mutation: a revival credits the active seconds alone
creditRevivalActiveOnly(s, secondsAdded) ==
    [s EXCEPT !.activeSeconds = @ + secondsAdded]

\* the revival listener: the updater of a revival
creditRevival(s, secondsAdded) ==
    [s EXCEPT !.activeSeconds = @ + secondsAdded, !.reviewingSeconds = @ + secondsAdded]

\* resetForNewDay(): the updater
resetForNewDay(s) ==
    [metricsReset(s) EXCEPT !.activeSeconds = 0, !.typingSeconds = 0,
                            !.reviewingSeconds = 0]

----------------------------------------------------------------------------
(* The statistics steps *)

NoRead == [len |-> 0, lines |-> 0, rangeLength |-> 0, key |-> 0, matches |-> FALSE,
           since |-> 0]

NoStatObs == [op |-> "none", key |-> 0, before |-> getEmptyStats(0), changes |-> <<>>,
              msSinceType |-> 0, msSincePaste |-> 0, secondsAdded |-> 0,
              read |-> NoRead, start |-> getEmptyStats(0), at |-> 0,
              zombieBefore |-> 0, focused |-> FALSE, idleTimeoutMs |-> 0]

\* deletedSpan: the line spans of the pure deletions the classifier has handled;
\* humanEditAt: the time of the last document change with a human signal
NoStatLog == [deletedSpan |-> 0, humanEditAt |-> 0]

RECURSIVE deletedSpanOf(_)
\* the deleted line spans of the pure deletions of an event
deletedSpanOf(changes) ==
    IF changes = <<>> THEN 0
    ELSE (IF Head(changes).len = 0 THEN Head(changes).deleted ELSE 0)
             + deletedSpanOf(Tail(changes))

\* the instants at which the model lets something happen are 0, 99 and 100 ms
\* into a second: the instant after t
nextMark(t) ==
    LET r == t % 1000
    IN  IF r < 99 THEN t - r + 99
        ELSE IF r < 100 THEN t - r + 100
        ELSE t - r + 1000

\* the clock advances to the next instant, never past a due tick
Elapse ==
    /\ UNCHANGED debounceTimer
    /\ UNCHANGED <<schedVars, extVars>>
    /\ nextMark(wall) <= nextActivityTick
    /\ wall' = nextMark(wall)
    /\ UNCHANGED <<cfg, statsVars>>

\* mutation: a keystroke also ends the snooze
KeystrokeEndsSnooze ==
    /\ subscribed
    /\ UNCHANGED <<debounceTimer, extVars>>
    /\ snoozedUntil' = 0
    /\ UNCHANGED <<debugTimeOffset, softNudgeFired, isHardStopActive, dialogs, obs,
                   shownSince, lastSnooze, nudgeLog, nTicks, nEnv>>
    /\ nStatEnv < MaxStatEnv
    /\ nStatEnv' = nStatEnv + 1
    /\ lastHumanTypeTime' = wall
    /\ statObs' = [NoStatObs EXCEPT !.op = "keystroke"]
    /\ UNCHANGED <<wall, cfg, lastPasteTime, lastManualTime, isFocused,
                   zombieStartTimestamp, nextActivityTick, history, clipboardReads,
                   ideal, tainted, debugMutated, statLog, nStatTicks>>

\* the 'type' command: a physical keystroke
Keystroke ==
    /\ UNCHANGED debounceTimer
    /\ subscribed
    /\ UNCHANGED <<schedVars, extVars>>
    /\ nStatEnv < MaxStatEnv
    /\ nStatEnv' = nStatEnv + 1
    /\ lastHumanTypeTime' = wall
    /\ statObs' = [NoStatObs EXCEPT !.op = "keystroke"]
    /\ UNCHANGED <<wall, cfg, lastPasteTime, lastManualTime, isFocused,
                   zombieStartTimestamp, nextActivityTick, history, clipboardReads,
                   ideal, tainted, debugMutated, statLog, nStatTicks>>

\* provideDocumentPasteEdits: a paste
PasteOccurred ==
    /\ UNCHANGED debounceTimer
    /\ subscribed
    /\ UNCHANGED <<schedVars, extVars>>
    /\ nStatEnv < MaxStatEnv
    /\ nStatEnv' = nStatEnv + 1
    /\ lastPasteTime' = wall
    /\ statObs' = [NoStatObs EXCEPT !.op = "paste"]
    /\ UNCHANGED <<wall, cfg, lastHumanTypeTime, lastManualTime, isFocused,
                   zombieStartTimestamp, nextActivityTick, history, clipboardReads,
                   ideal, tainted, debugMutated, statLog, nStatTicks>>

\* onDidChangeWindowState
WindowFocusChanged(focused) ==
    /\ UNCHANGED debounceTimer
    /\ subscribed
    /\ UNCHANGED <<schedVars, extVars>>
    /\ nStatEnv < MaxStatEnv
    /\ nStatEnv' = nStatEnv + 1
    /\ focused # isFocused
    /\ isFocused' = focused
    /\ statObs' = [NoStatObs EXCEPT !.op = "focus"]
    /\ UNCHANGED <<wall, cfg, lastHumanTypeTime, lastPasteTime, lastManualTime,
                   zombieStartTimestamp, nextActivityTick, history, clipboardReads,
                   ideal, tainted, debugMutated, statLog, nStatTicks>>

\* the clipboard reads the loop starts, each with whether the clipboard will
\* hold the change's text when it is read
RECURSIVE newClipboardReads(_, _, _, _, _)
newClipboardReads(changes, msSinceType, msSincePaste, key, matches) ==
    IF changes = <<>> THEN <<>>
    ELSE LET ch == Head(changes)
             rest == newClipboardReads(Tail(changes), msSinceType, msSincePaste,
                                       key, matches)
         IN  IF startsClipboardRead(ch, msSinceType, msSincePaste)
             THEN <<[len |-> ch.len, lines |-> ch.lines, rangeLength |-> ch.rangeLength,
                     key |-> key, matches |-> matches, since |-> 0]>> \o rest
             ELSE rest

RECURSIVE idealChanges(_, _, _, _, _)
\* the loop, with a change whose clipboard check will match credited as a paste
idealChanges(s, changes, msSinceType, msSincePaste, matches) ==
    IF changes = <<>> THEN s
    ELSE LET ch == Head(changes)
             s1 == IF startsClipboardRead(ch, msSinceType, msSincePaste) /\ matches
                   THEN creditPaste(s, ch.len, ch.lines)
                   ELSE classifyChange(s, ch, msSinceType, msSincePaste)
         IN  idealChanges(s1, Tail(changes), msSinceType, msSincePaste, matches)

\* the pending clipboard reads, each having seen one more document change
olderReads(reads) == [i \in 1..Len(reads) |-> [reads[i] EXCEPT !.since = @ + 1]]

\* the revival listener of ActivityTracker on a record: the record it leaves
afterRevivalListener(h, key, msSinceHuman, t) ==
    IF ~isHumanInput(msSinceHuman) /\ revivalSeconds(zombieStartTimestamp, t) > 0
    THEN storeToday(h, key, creditRevival(todayOf(h, key),
                                          revivalSeconds(zombieStartTimestamp, t)))
    ELSE h

\* mutation: a human edit leaves the zombie marker
zombieAfterChangeKept(msSinceHuman) ==
    IF isHumanInput(msSinceHuman) THEN zombieStartTimestamp
    ELSE IF zombieStartTimestamp # 0 THEN 0
    ELSE zombieStartTimestamp

\* the revival listener: the zombie marker it leaves
zombieAfterChange(msSinceHuman) ==
    IF isHumanInput(msSinceHuman) THEN 0
    ELSE IF zombieStartTimestamp # 0 THEN 0
    ELSE zombieStartTimestamp

\* onDidChangeTextDocument with content changes: the listener of ActivityTracker,
\* then the listener of MetricsEngine (which drops undo and redo)
DocumentChanged(changes, undoRedo, matches) ==
    /\ subscribed
    /\ UNCHANGED <<schedVars, extRest>>
    /\ nStatEnv < MaxStatEnv
    /\ nStatEnv' = nStatEnv + 1
    /\ changes # <<>>
    /\ LET key == getTodayKey(wall, cfg)
           msSinceHuman == timeSinceHumanInput(wall)
           msSincePaste == timeSincePaste(wall)
           h1 == afterRevivalListener(history, key, msSinceHuman, wall)
           i1 == afterRevivalListener(ideal, key, msSinceHuman, wall)
           reads == newClipboardReads(changes, msSinceHuman, msSincePaste, key, matches)
       IN  /\ zombieStartTimestamp' = zombieAfterChange(msSinceHuman)
           /\ debounceTimer' = IF ~undoRedo \/ h1 # history THEN requestSave(wall)
                                ELSE debounceTimer
           /\ Len(clipboardReads) + Len(reads) <= MaxClipboardReads
           /\ IF undoRedo
              THEN /\ history' = h1
                   /\ ideal' = i1
                   /\ clipboardReads' = olderReads(clipboardReads)
              ELSE /\ history' = storeToday(h1, key,
                          classifyChanges(todayOf(h1, key), changes,
                                          msSinceHuman, msSincePaste))
                   /\ ideal' = storeToday(i1, key,
                          idealChanges(todayOf(i1, key), changes,
                                       msSinceHuman, msSincePaste, matches))
                   /\ clipboardReads' = olderReads(clipboardReads) \o reads
           /\ statObs' = [NoStatObs EXCEPT
                  !.op = IF undoRedo THEN "undo" ELSE "change",
                  !.key = key, !.before = todayOf(h1, key), !.changes = changes,
                  !.msSinceType = msSinceHuman, !.msSincePaste = msSincePaste,
                  !.secondsAdded = IF isHumanInput(msSinceHuman) THEN 0
                                   ELSE revivalSeconds(zombieStartTimestamp, wall),
                  !.start = todayOf(history, key), !.at = wall,
                  !.zombieBefore = zombieStartTimestamp]
           /\ statLog' = [deletedSpan |-> statLog.deletedSpan
                                             + (IF undoRedo THEN 0
                                                ELSE deletedSpanOf(changes)),
                          humanEditAt |-> IF isHumanInput(msSinceHuman) THEN wall
                                          ELSE statLog.humanEditAt]
    /\ UNCHANGED <<wall, cfg, lastHumanTypeTime, lastPasteTime, lastManualTime,
                   isFocused, nextActivityTick, tainted, debugMutated,
                   nStatTicks>>
    /\ update' = afterGetToday(update, history, history')

\* the .then callback of clipboard.readText() in the classifier
ClipboardRead(i) ==
    /\ UNCHANGED <<schedVars, extRest>>
    /\ i \in 1..Len(clipboardReads)
    /\ LET r == clipboardReads[i]
           key == getTodayKey(wall, cfg)
       IN  /\ history' = IF r.matches
                         THEN storeToday(history, key,
                                  clipboardCorrection(todayOf(history, key),
                                                      r.len, r.lines, r.rangeLength))
                         ELSE history
           /\ debounceTimer' = IF r.matches THEN requestSave(wall) ELSE debounceTimer
           /\ tainted' = (tainted \/ (r.matches /\ r.key # key))
           /\ statObs' = [NoStatObs EXCEPT !.op = "clipboard", !.key = key,
                                           !.before = todayOf(history, key),
                                           !.read = r]
    /\ clipboardReads' = SubSeq(clipboardReads, 1, i - 1)
                             \o SubSeq(clipboardReads, i + 1, Len(clipboardReads))
    /\ UNCHANGED <<wall, cfg, lastHumanTypeTime, lastPasteTime, lastManualTime,
                   isFocused, zombieStartTimestamp, nextActivityTick, ideal,
                   debugMutated, statLog, nStatTicks, nStatEnv>>
    /\ update' = afterGetToday(update, history, history')

\* mutation: every idle tick marks the time of death anew
zombieAfterIdleTickRenewed(zombie, t) == t

\* the tick, idle: "If we JUST died (zombie start is null), mark the time of death"
zombieAfterIdleTick(zombie, t) == IF zombie = 0 THEN t ELSE zombie

\* mutation: an active tick leaves the time of death as it is
zombieAfterActiveTickKept(zombie) == zombie

\* the tick, active: "Ensure zombie state is clear"
zombieAfterActiveTick(zombie) == 0

\* The setInterval callback of startTracking
ActivityTick ==
    /\ trackingInterval
    /\ UNCHANGED <<schedVars, extRest>>
    /\ nStatTicks < MaxStatTicks
    /\ nStatTicks' = nStatTicks + 1
    /\ wall >= nextActivityTick
    /\ nextActivityTick' = wall + ActivityTickMs
    /\ LET key == getTodayKey(wall, cfg)
           msSinceInput == timeSinceHumanInput(wall)
       IN  IF isActive(isFocused, msSinceInput)
           THEN /\ zombieStartTimestamp' = zombieAfterActiveTick(zombieStartTimestamp)
                /\ debounceTimer' = requestSave(wall)
                /\ history' = storeToday(history, key,
                                  creditActiveSecond(todayOf(history, key), msSinceInput))
                /\ ideal' = storeToday(ideal, key,
                                creditActiveSecond(todayOf(ideal, key), msSinceInput))
                /\ statObs' = [NoStatObs EXCEPT !.op = "activeTick", !.key = key,
                                                !.before = todayOf(history, key),
                                                !.msSinceType = msSinceInput,
                                                !.at = wall, !.focused = isFocused,
                                                !.zombieBefore = zombieStartTimestamp,
                                                !.idleTimeoutMs =
                                                    cfg.idleTimeoutSeconds * 1000]
           ELSE /\ zombieStartTimestamp' = zombieAfterIdleTick(zombieStartTimestamp, wall)
                /\ UNCHANGED <<history, ideal, debounceTimer>>
                /\ statObs' = [NoStatObs EXCEPT !.op = "idleTick", !.key = key,
                                                !.before = todayOf(history, key),
                                                !.msSinceType = msSinceInput,
                                                !.at = wall, !.focused = isFocused,
                                                !.zombieBefore = zombieStartTimestamp,
                                                !.idleTimeoutMs =
                                                    cfg.idleTimeoutSeconds * 1000]
    /\ UNCHANGED <<wall, cfg, lastHumanTypeTime, lastPasteTime, lastManualTime,
                   isFocused, clipboardReads, tainted, debugMutated, statLog,
                   nStatEnv>>
    /\ update' = afterGetToday(update, history, history')

\* a reset of today's record leaves the pending clipboard checks behind
taintedByReset == tainted \/ \E i \in 1..Len(clipboardReads) : clipboardReads[i].matches

\* DashboardPanel, case "resetForNewDay": ActivityTracker.resetForNewDay(), then
\* NotificationManager.reset()
ResetForNewDay ==
    /\ debounceTimer' = requestSave(wall)
    /\ UNCHANGED <<hostVars, historyFile, saveLog>>
    /\ nEnv < MaxEnv
    /\ nEnv' = nEnv + 1
    /\ nStatEnv < MaxStatEnv
    /\ nStatEnv' = nStatEnv + 1
    /\ LET key == getTodayKey(wall, cfg)
       IN  /\ history' = storeToday(history, key, resetForNewDay(todayOf(history, key)))
           /\ ideal' = storeToday(ideal, key, resetForNewDay(todayOf(ideal, key)))
           /\ statObs' = [NoStatObs EXCEPT !.op = "resetForNewDay", !.key = key]
    /\ tainted' = taintedByReset
    /\ reset
    /\ UNCHANGED <<wall, cfg, debugTimeOffset, isHardStopActive, dialogs, nTicks,
                   lastHumanTypeTime, lastPasteTime, lastManualTime, isFocused,
                   zombieStartTimestamp, nextActivityTick, clipboardReads,
                   debugMutated, statLog, nStatTicks>>
    /\ update' = afterGetToday(update, history, history')
    /\ slot' = afterSlotReset(slot, getTodayKey(wall, cfg))

\* the setter of ActivityTracker.activeSeconds
setActiveSeconds(s, value) == [s EXCEPT !.activeSeconds = value]

\* the debug tools' 'Reset All Data': activeSeconds = 0, MetricsEngine.reset(),
\* NotificationManager.reset()
DebugResetAllData ==
    /\ debounceTimer' = requestSave(wall)
    /\ UNCHANGED extRest
    /\ nEnv < MaxEnv
    /\ nEnv' = nEnv + 1
    /\ nStatEnv < MaxStatEnv
    /\ nStatEnv' = nStatEnv + 1
    /\ LET key == getTodayKey(wall, cfg)
       IN  /\ history' = storeToday(history, key,
                              metricsReset(setActiveSeconds(todayOf(history, key), 0)))
           /\ ideal' = storeToday(ideal, key,
                            metricsReset(setActiveSeconds(todayOf(ideal, key), 0)))
           /\ statObs' = [NoStatObs EXCEPT !.op = "resetAllData", !.key = key]
    /\ tainted' = taintedByReset
    /\ debugMutated' = TRUE
    /\ reset
    /\ UNCHANGED <<wall, cfg, debugTimeOffset, isHardStopActive, dialogs, nTicks,
                   lastHumanTypeTime, lastPasteTime, lastManualTime, isFocused,
                   zombieStartTimestamp, nextActivityTick, clipboardReads,
                   statLog, nStatTicks>>
    /\ update' = afterGetToday(update, history, history')

----------------------------------------------------------------------------
(* The statistics components, a tick being due at the day start hour      *)

\* the content changes of the model
Deletion2 == [len |-> 0, lines |-> 0, deleted |-> 2, rangeLength |-> 9]
Insert5 == [len |-> 5, lines |-> 1, deleted |-> 0, rangeLength |-> 0]
Insert6 == [len |-> 6, lines |-> 1, deleted |-> 0, rangeLength |-> 0]
Insert51 == [len |-> 51, lines |-> 2, deleted |-> 0, rangeLength |-> 0]
Replace51 == [len |-> 51, lines |-> 2, deleted |-> 1, rangeLength |-> 40]

\* the document-change events of the model: single changes and a batch
DocEvents == {<<Deletion2>>, <<Insert5>>, <<Insert6>>, <<Insert51>>, <<Replace51>>,
              <<Deletion2, Insert6>>}

\* an event, whether it is an undo or redo, and whether the clipboard will hold
\* its text when a check it starts reads it
DocInputs ==
    {<<e, FALSE, FALSE>> : e \in DocEvents}
        \cup {<<e, FALSE, TRUE>> : e \in {<<Insert51>>, <<Replace51>>}}
        \cup {<<e, TRUE, FALSE>> : e \in {<<Insert6>>}}

\* 03:59:59.900 of day 1
StatsStartWall == Day1 + 4 * MsPerHour - 100

\* writes: saveHistory() calls so far; lastWriteAt: when the last one ran;
\* minGapMs: the least time between two of them (0: fewer than two so far);
\* disposes: how often the subscriptions have been disposed
NoSaveLog == [writes |-> 0, lastWriteAt |-> 0, minGapMs |-> 0, disposes |-> 0]

\* the host and the persistence after activate(): the timers run, the listeners
\* are registered, loadHistory() has read the file
HostStart ==
    /\ running = TRUE
    /\ trackingInterval = TRUE
    /\ checkInterval = TRUE
    /\ subscribed = TRUE
    /\ debounceTimer = 0
    /\ historyFile = history
    /\ saveLog = NoSaveLog
    /\ update = NoUpdate
    /\ slot = NoSlot

StatsStart ==
    /\ lastHumanTypeTime = 0
    /\ lastPasteTime = 0
    /\ lastManualTime = 0
    /\ isFocused = TRUE
    /\ zombieStartTimestamp = 0
    /\ nextActivityTick = 0
    /\ history = NoHistory
    /\ clipboardReads = <<>>
    /\ statObs = NoStatObs
    /\ ideal = NoHistory
    /\ tainted = FALSE
    /\ debugMutated = FALSE
    /\ statLog = NoStatLog
    /\ nStatTicks = 0
    /\ nStatEnv = 0

SchedStart ==
    /\ debugTimeOffset = 0
    /\ snoozedUntil = 0
    /\ softNudgeFired = FALSE
    /\ isHardStopActive = FALSE
    /\ dialogs = <<>>
    /\ obs = NoObs
    /\ shownSince = 0
    /\ lastSnooze = [at |-> 0, minutes |-> 0]
    /\ nudgeLog = NoNudgeLog
    /\ nTicks = 0
    /\ nEnv = 0

StatsInit ==
    /\ wall = StatsStartWall
    /\ cfg = DefaultCfg
    /\ SchedStart
    /\ lastHumanTypeTime = 0
    /\ lastPasteTime = 0
    /\ lastManualTime = 0
    /\ isFocused = TRUE
    /\ zombieStartTimestamp = 0
    /\ nextActivityTick = StatsStartWall + 100
    /\ history = NoHistory
    /\ clipboardReads = <<>>
    /\ statObs = NoStatObs
    /\ ideal = NoHistory
    /\ tainted = FALSE
    /\ debugMutated = FALSE
    /\ statLog = NoStatLog
    /\ nStatTicks = 0
    /\ nStatEnv = 0
    /\ HostStart

StatsNext ==
    \/ Elapse
    \/ Keystroke
    \/ PasteOccurred
    \/ \E f \in BOOLEAN : WindowFocusChanged(f)
    \/ \E d \in DocInputs : DocumentChanged(d[1], d[2], d[3])
    \/ \E i \in 1..MaxClipboardReads : ClipboardRead(i)
    \/ ActivityTick
    \/ ResetForNewDay
    \/ DebugResetAllData

StatsSpec == StatsInit /\ [][StatsNext]_vars

----------------------------------------------------------------------------
(* The classifier alone, at noon: keystrokes, pastes and document changes  *)

\* further content changes: a deletion within one line, one typed character
Deletion0 == [len |-> 0, lines |-> 0, deleted |-> 0, rangeLength |-> 3]
Type1 == [len |-> 1, lines |-> 0, deleted |-> 0, rangeLength |-> 0]

ClassifyEvents == {<<Deletion0>>, <<Deletion2>>, <<Deletion2, Deletion2>>, <<Type1>>,
                   <<Insert6>>, <<Deletion2, Insert6>>}

ClassifyInputs ==
    {<<e, FALSE, FALSE>> : e \in ClassifyEvents}
        \cup {<<<<Replace51>>, FALSE, TRUE>>, <<<<Deletion2>>, TRUE, FALSE>>}

\* 11:59:59.900 of day 1
ClassifyStartWall == Day1 + 12 * MsPerHour - 100

ClassifyInit ==
    /\ wall = ClassifyStartWall
    /\ cfg = DefaultCfg
    /\ SchedStart
    /\ lastHumanTypeTime = 0
    /\ lastPasteTime = 0
    /\ lastManualTime = 0
    /\ isFocused = TRUE
    /\ zombieStartTimestamp = 0
    /\ nextActivityTick = ClassifyStartWall + 100
    /\ history = NoHistory
    /\ clipboardReads = <<>>
    /\ statObs = NoStatObs
    /\ ideal = NoHistory
    /\ tainted = FALSE
    /\ debugMutated = FALSE
    /\ statLog = NoStatLog
    /\ nStatTicks = 0
    /\ nStatEnv = 0
    /\ HostStart

ClassifyNext ==
    \/ Elapse
    \/ Keystroke
    \/ PasteOccurred
    \/ \E d \in ClassifyInputs : DocumentChanged(d[1], d[2], d[3])
    \/ \E i \in 1..MaxClipboardReads : ClipboardRead(i)
    \/ ActivityTick

ClassifySpec == ClassifyInit /\ [][ClassifyNext]_vars

----------------------------------------------------------------------------
(* The activity tracker alone, at noon: ticks, focus changes, keystrokes,  *)
(* document changes, stalls of the host and changes of the idle timeout    *)

\* stalls and changes of the configuration in one run of the activity tracker
MaxActivityEnv == 2

ActivityInputs == {<<<<Insert6>>, FALSE, FALSE>>, <<<<Deletion2>>, TRUE, FALSE>>}

\* the configured idle timeout: 30 s (the default) or 1 s
ActivityCfgSet == {DefaultCfg, [DefaultCfg EXCEPT !.idleTimeoutSeconds = 1]}

\* stalls of 2 s, of one millisecond less than the revival window, and of the window
ActivitySuspendSteps == {2000, ZombieRevivalWindowMs - 1, ZombieRevivalWindowMs}

\* 11:59:59.900 of day 1
ActivityStartWall == Day1 + 12 * MsPerHour - 100

ActivityInit ==
    /\ wall = ActivityStartWall
    /\ cfg = DefaultCfg
    /\ SchedStart
    /\ lastHumanTypeTime = 0
    /\ lastPasteTime = 0
    /\ lastManualTime = 0
    /\ isFocused = TRUE
    /\ zombieStartTimestamp = 0
    /\ nextActivityTick = ActivityStartWall + 100
    /\ history = NoHistory
    /\ clipboardReads = <<>>
    /\ statObs = NoStatObs
    /\ ideal = NoHistory
    /\ tainted = FALSE
    /\ debugMutated = FALSE
    /\ statLog = NoStatLog
    /\ nStatTicks = 0
    /\ nStatEnv = 0
    /\ HostStart

ActivityNext ==
    \/ Elapse
    \/ Keystroke
    \/ \E f \in BOOLEAN : WindowFocusChanged(f)
    \/ \E d \in ActivityInputs : DocumentChanged(d[1], d[2], d[3])
    \/ ActivityTick
    \/ \E d \in ActivitySuspendSteps : nEnv < MaxActivityEnv /\ Suspend(d)
    \/ \E c \in ActivityCfgSet : nEnv < MaxActivityEnv /\ ConfigChanged(c)

ActivitySpec == ActivityInit /\ [][ActivityNext]_vars

----------------------------------------------------------------------------
(* The deadline computation at several times of day: before and after the  *)
(* day start hour, with bedtimes before, at and after it                   *)

Bedtime0400 == <<"0", "4", ":", "0", "0">>

DeadlineCfgSet == {DefaultCfg,
                   [DefaultCfg EXCEPT !.bedtime = Bedtime0100],
                   [DefaultCfg EXCEPT !.bedtime = Bedtime0400],
                   [DefaultCfg EXCEPT !.dayStartHour = 0]}

\* 02:59:58, 03:59:58 and 09:59:58 of day 1
DeadlineWalls == {Day1 + 3 * MsPerHour - 2000, Day1 + 4 * MsPerHour - 2000,
                  Day1 + 10 * MsPerHour - 2000}

DeadlineDebugTimes == {<<3, 0, 0>>, <<10, 0, 0>>}

\* arguments of handleSnooze: 30 minutes after and 2 hours before 03:00 of day 1
GuardTargets == {Day1 + 3 * MsPerHour + EarlyBufferMs, Day1 + 3 * MsPerHour - LateBufferMs}

DeadlineInit ==
    /\ wall \in DeadlineWalls
    /\ cfg \in DeadlineCfgSet
    /\ SchedStart
    /\ StatsStart
    /\ HostStart

DeadlineNext ==
    \/ SchedulerTick
    \/ \E c \in DeadlineCfgSet : ConfigChanged(c)
    \/ \E d \in DeadlineDebugTimes : DebugSetTime(d[1], d[2], d[3])
    \/ \E m \in DashboardSnoozeChoices : DashboardSnooze(m)
    \/ \E target \in GuardTargets \cup {getTargetBedtimeTimestamp(snoozedUntil, now, cfg)} :
           HandleSnooze(target)

DeadlineSpec == DeadlineInit /\ [][DeadlineNext]_vars

----------------------------------------------------------------------------
(* The scheduler, started three seconds before the soft nudge is due       *)

NudgeCfgSet == {DefaultCfg, [DefaultCfg EXCEPT !.autoSnoozeMinutes = 1]}

\* 22:29:57 of day 1
NudgeStartWall == Day1 + 22 * MsPerHour + 30 * MsPerMinute - 3000

\* a stall of 30 minutes: from the time of the nudge to the time of the deadline
NudgeSuspendSteps == {30 * MsPerMinute}

NudgeInit ==
    /\ wall = NudgeStartWall
    /\ cfg = DefaultCfg
    /\ SchedStart
    /\ StatsStart
    /\ HostStart

NudgeNext ==
    \/ SchedulerTick
    \/ \E c \in NudgeCfgSet : ConfigChanged(c)
    \/ \E m \in DashboardSnoozeChoices : DashboardSnooze(m)
    \/ \E i \in 1..MaxDialogs, sel \in Selections : ResolveDialog(i, sel)
    \/ \E d \in NudgeSuspendSteps : Suspend(d)
    \/ ResetForNewDay

NudgeSpec == NudgeInit /\ [][NudgeNext]_vars

----------------------------------------------------------------------------
(* The scheduler under bedtime settings that are not HH:MM, started three  *)
(* seconds before 23:00                                                    *)

BedtimeNoColon == <<"2", "3", "0", "0">>
BedtimeEmpty == <<>>
BedtimeNoMinute == <<"2", "3", ":">>
BedtimeWords == <<"l", "a", "t", "e">>

ParseCfgSet == {DefaultCfg,
                [DefaultCfg EXCEPT !.bedtime = BedtimeNoColon],
                [DefaultCfg EXCEPT !.bedtime = BedtimeEmpty],
                [DefaultCfg EXCEPT !.bedtime = BedtimeNoMinute],
                [DefaultCfg EXCEPT !.bedtime = BedtimeWords]}

\* 22:59:57 of day 1
ParseStartWall == Day1 + 23 * MsPerHour - 3000

ParseInit ==
    /\ wall = ParseStartWall
    /\ cfg = DefaultCfg
    /\ SchedStart
    /\ StatsStart
    /\ HostStart

ParseNext ==
    \/ SchedulerTick
    \/ \E c \in ParseCfgSet : ConfigChanged(c)
    \/ \E m \in DashboardSnoozeChoices : DashboardSnooze(m)
    \/ \E i \in 1..MaxDialogs, sel \in Selections : ResolveDialog(i, sel)

ParseSpec == ParseInit /\ [][ParseNext]_vars

----------------------------------------------------------------------------
(* The deadline computation over every day start hour and every bedtime    *)
(* hour, the clock passing each hour of the day                            *)

\* the setting "HH:MM" of an hour and a minute
hhmm(h, m) == <<Digits[(h \div 10) + 1], Digits[(h % 10) + 1], ":",
                Digits[(m \div 10) + 1], Digits[(m % 10) + 1]>>

SessionDayCfgSet ==
    {[DefaultCfg EXCEPT !.bedtime = hhmm(h, m), !.dayStartHour = d] :
        h \in 0..23, m \in {0, 59}, d \in 0..23}

\* two seconds before each hour of day 1
SessionDayWalls == {Day1 + h * MsPerHour - 2000 : h \in 0..23}

SessionDayInit ==
    /\ wall \in SessionDayWalls
    /\ cfg \in SessionDayCfgSet
    /\ SchedStart
    /\ StatsStart
    /\ HostStart

SessionDayNext == SchedulerTick

SessionDaySpec == SessionDayInit /\ [][SessionDayNext]_vars

----------------------------------------------------------------------------
(* The scheduler, started shortly before the configured bedtime of day 1 *)

\* 22:59:55.000 and 22:59:55.500 of day 1: the two phases of the tick
\* against the deadline, on the grid of 500 ms
InitWalls == {Day1 + 23 * MsPerHour - 5000, Day1 + 23 * MsPerHour - 4500}

\* 23:00:09 (the next tick is 10 s late) and 22:28:57 (before the nudge)
DebugTimes == {<<23, 0, 9>>, <<22, 28, 57>>}

\* 30 minutes less 3 s (to the eve of a snooze's expiry) and 31 minutes (past it)
SuspendSteps == {30 * MsPerMinute - 3000, 30 * MsPerMinute + 60000}

SchedInit ==
    /\ wall \in InitWalls
    /\ cfg = DefaultCfg
    /\ SchedStart
    /\ StatsStart
    /\ HostStart

SchedNext ==
    \/ SchedulerTick
    \/ \E c \in CfgSet : ConfigChanged(c)
    \/ \E m \in DashboardSnoozeChoices : DashboardSnooze(m)
    \/ \E i \in 1..MaxDialogs, sel \in Selections : ResolveDialog(i, sel)
    \/ ManualHardStop
    \/ ResetForNewDay
    \/ \E hms \in DebugTimes : DebugSetTime(hms[1], hms[2], hms[3])
    \/ \E d \in SuspendSteps : Suspend(d)

Spec == SchedInit /\ [][SchedNext]_vars

----------------------------------------------------------------------------
(* The scheduler and the statistics components together, around the        *)
(* deadline                                                                *)

\* scheduler ticks, other scheduler steps and input events in one run of the
\* whole extension; the scheduler's tick advances the clock
MaxSessionTicks == 4
MaxSessionEnv == 2
MaxSessionStatEnv == 2

SessionInputs == {<<<<Insert6>>, FALSE, FALSE>>, <<<<Replace51>>, FALSE, TRUE>>}

\* 22:59:59.900 of day 1
SessionStartWall == Day1 + 23 * MsPerHour - 100

SessionInit ==
    /\ wall = SessionStartWall
    /\ cfg = DefaultCfg
    /\ SchedStart
    /\ lastHumanTypeTime = 0
    /\ lastPasteTime = 0
    /\ lastManualTime = 0
    /\ isFocused = TRUE
    /\ zombieStartTimestamp = 0
    /\ nextActivityTick = SessionStartWall + 100
    /\ history = NoHistory
    /\ clipboardReads = <<>>
    /\ statObs = NoStatObs
    /\ ideal = NoHistory
    /\ tainted = FALSE
    /\ debugMutated = FALSE
    /\ statLog = NoStatLog
    /\ nStatTicks = 0
    /\ nStatEnv = 0
    /\ HostStart

SessionNext ==
    \/ nTicks < MaxSessionTicks /\ SchedulerTick
    \/ nEnv < MaxSessionEnv /\ DashboardSnooze(30)
    \/ \E i \in 1..MaxDialogs, sel \in Selections :
           nEnv < MaxSessionEnv /\ ResolveDialog(i, sel)
    \/ nEnv < MaxSessionEnv /\ DebugSetTime(23, 0, 9)
    \/ nEnv < MaxSessionEnv /\ ResetForNewDay
    \/ nStatEnv < MaxSessionStatEnv /\ Keystroke
    \/ \E d \in SessionInputs :
           nStatEnv < MaxSessionStatEnv /\ DocumentChanged(d[1], d[2], d[3])
    \/ \E i \in 1..MaxClipboardReads : ClipboardRead(i)
    \/ ActivityTick

SessionSpec == SessionInit /\ [][SessionNext]_vars

----------------------------------------------------------------------------
(* Persistence and disposal: the debounced save, the disposal of the       *)
(* subscriptions and the exit of the host, one second after bedtime        *)

MaxDisposes == 2
MaxPersistTicks == 3
MaxPersistMs == 3000
MaxPersistEnv == 2

\* the clock advances to the next instant, never past a due tick or a due save
ElapseTimers ==
    /\ running
    /\ trackingInterval => nextMark(wall) <= nextActivityTick
    /\ debounceTimer # 0 => nextMark(wall) <= debounceTimer
    /\ wall' = nextMark(wall)
    /\ UNCHANGED <<cfg, schedVars, statsVars, hostVars, storeVars, update, slot>>

\* the timeout of requestSave: saveHistory()
SaveTimerFires ==
    /\ running
    /\ debounceTimer # 0
    /\ wall >= debounceTimer
    /\ debounceTimer' = 0
    /\ historyFile' = history
    /\ saveLog' = [saveLog EXCEPT
           !.writes = @ + 1, !.lastWriteAt = wall,
           !.minGapMs = IF saveLog.writes = 0 THEN 0
                        ELSE IF @ = 0 \/ wall - saveLog.lastWriteAt < @
                        THEN wall - saveLog.lastWriteAt
                        ELSE @]
    /\ UNCHANGED <<wall, cfg, schedVars, statsVars, hostVars, update, slot>>

\* ActivityTracker.dispose(): clearInterval(this._trackingInterval)
disposedTrackingInterval == FALSE

\* the subscriptions of the extension context are disposed: the listeners of
\* InputListener, ActivityTracker.dispose(), MetricsEngine.dispose(),
\* NotificationManager.dispose()
Dispose ==
    /\ running
    /\ saveLog.disposes < MaxDisposes
    /\ saveLog' = [saveLog EXCEPT !.disposes = @ + 1]
    /\ trackingInterval' = disposedTrackingInterval
    /\ subscribed' = FALSE
    /\ debounceTimer' = requestSave(wall)
    /\ checkInterval' = FALSE
    /\ UNCHANGED <<wall, cfg, schedVars, statsVars, running, historyFile, update,
                   slot>>

\* the extension host exits after the subscriptions are disposed: no timeout
\* and no promise callback of the process runs any more
HostExit ==
    /\ running
    /\ saveLog.disposes > 0
    /\ running' = FALSE
    /\ debounceTimer' = 0
    /\ clipboardReads' = <<>>
    /\ dialogs' = <<>>
    /\ UNCHANGED <<wall, cfg, debugTimeOffset, snoozedUntil, softNudgeFired,
                   isHardStopActive, obs, shownSince, lastSnooze, nudgeLog, nTicks,
                   nEnv, lastHumanTypeTime, lastPasteTime, lastManualTime, isFocused,
                   zombieStartTimestamp, nextActivityTick, history, statObs, ideal,
                   tainted, debugMutated, statLog, nStatTicks, nStatEnv,
                   trackingInterval, checkInterval, subscribed, historyFile, saveLog,
                   update, slot>>

\* 23:00:01.000 of day 1
PersistStartWall == Day1 + 23 * MsPerHour + 1000

PersistInputs == {<<<<Insert6>>, FALSE, FALSE>>}

PersistInit ==
    /\ wall = PersistStartWall
    /\ cfg = DefaultCfg
    /\ SchedStart
    /\ lastHumanTypeTime = 0
    /\ lastPasteTime = 0
    /\ lastManualTime = 0
    /\ isFocused = TRUE
    /\ zombieStartTimestamp = 0
    /\ nextActivityTick = PersistStartWall + ActivityTickMs
    /\ history = NoHistory
    /\ clipboardReads = <<>>
    /\ statObs = NoStatObs
    /\ ideal = NoHistory
    /\ tainted = FALSE
    /\ debugMutated = FALSE
    /\ statLog = NoStatLog
    /\ nStatTicks = 0
    /\ nStatEnv = 0
    /\ HostStart

\* the scheduler tick comes one period after the previous one when no other
\* timer is due before it
PersistNext ==
    \/ wall < PersistStartWall + MaxPersistMs /\ ElapseTimers
    \/ SaveTimerFires
    \/ Dispose
    \/ HostExit
    \/ /\ running
       /\ nTicks < MaxPersistTicks
       /\ trackingInterval => wall + TickMs <= nextActivityTick
       /\ debounceTimer # 0 => wall + TickMs <= debounceTimer
       /\ SchedulerTick
    \/ running /\ nStatEnv < MaxPersistEnv /\ Keystroke
    \/ \E d \in PersistInputs :
           running /\ nStatEnv < MaxPersistEnv /\ DocumentChanged(d[1], d[2], d[3])
    \/ running /\ ActivityTick

PersistSpec == PersistInit /\ [][PersistNext]_vars

----------------------------------------------------------------------------
(* The update checks: the startup check, the checks of the days the        *)
(* dashboard's reset makes a record for, and a manual check                *)

MaxManualChecks == 1
MaxUpdateMs == 100
MaxUpdateResets == 2

\* the sequence without its i-th element
withoutCheck(checks, i) == SubSeq(checks, 1, i - 1) \o SubSeq(checks, i + 1, Len(checks))

\* the callback of a setTimeout(..., 5000) of activate() or of getToday():
\* checkForUpdates(false) up to its first await
UpdateTimerFires(i) ==
    /\ running
    /\ i \in 1..Len(update.checks)
    /\ update.checks[i].pc = "timer"
    /\ update' = [update EXCEPT !.checks[i].pc = "fetching"]
    /\ UNCHANGED <<wall, cfg, schedVars, statsVars, hostVars, storeVars, slot>>

\* DashboardPanel, case "checkUpdates": checkForUpdates(true) up to its first await
ManualCheck ==
    /\ running
    /\ update.manual < MaxManualChecks
    /\ update' = [update EXCEPT
           !.manual = @ + 1,
           !.checks = Append(@, [pc |-> "fetching", isManual |-> TRUE,
                                 remoteVersion |-> NoVersion])]
    /\ UNCHANGED <<wall, cfg, schedVars, statsVars, hostVars, storeVars, slot>>

\* fetchJson resolves: checkForUpdates from step 2 to showInformationMessage
FetchResolves(i) ==
    /\ running
    /\ i \in 1..Len(update.checks)
    /\ update.checks[i].pc = "fetching"
    /\ LET check == update.checks[i]
           remoteVersion == cleanVersion(update.release)
       IN  IF /\ isUpdateAvailable(LocalVersion, remoteVersion)
              /\ ~silenced(check.isManual, update.lastNotifiedVersion, remoteVersion)
           THEN update' = [update EXCEPT
                    !.checks[i] = [check EXCEPT !.pc = "showing",
                                                !.remoteVersion = remoteVersion],
                    !.notified = Append(@, [version |-> remoteVersion,
                                            isManual |-> check.isManual])]
           ELSE update' = [update EXCEPT !.checks = withoutCheck(@, i)]
    /\ UNCHANGED <<wall, cfg, schedVars, statsVars, hostVars, storeVars, slot>>

\* fetchJson rejects: the catch block
FetchFails(i) ==
    /\ running
    /\ i \in 1..Len(update.checks)
    /\ update.checks[i].pc = "fetching"
    /\ update' = [update EXCEPT !.checks = withoutCheck(@, i)]
    /\ UNCHANGED <<wall, cfg, schedVars, statsVars, hostVars, storeVars, slot>>

\* showInformationMessage resolves, with the button or without:
\* globalState.update('lastNotifiedVersion', remoteVersion)
NotificationResolves(i) ==
    /\ running
    /\ i \in 1..Len(update.checks)
    /\ update.checks[i].pc = "showing"
    /\ update' = [update EXCEPT
           !.lastNotifiedVersion = update.checks[i].remoteVersion,
           !.checks = withoutCheck(@, i)]
    /\ UNCHANGED <<wall, cfg, schedVars, statsVars, hostVars, storeVars, slot>>

\* the tags of the model
Tags == {[v |-> TRUE, version |-> <<1, 0, 0>>],
         FirstTag,
         [v |-> FALSE, version |-> <<1, 1>>]}

\* a newer release is published
ReleasePublished(tag) ==
    /\ isUpdateAvailable(cleanVersion(update.release), cleanVersion(tag))
    /\ update' = [update EXCEPT !.release = tag]
    /\ UNCHANGED <<wall, cfg, schedVars, statsVars, hostVars, storeVars, slot>>

UpdateInit ==
    /\ wall = StatsStartWall
    /\ cfg = DefaultCfg
    /\ SchedStart
    /\ lastHumanTypeTime = 0
    /\ lastPasteTime = 0
    /\ lastManualTime = 0
    /\ isFocused = TRUE
    /\ zombieStartTimestamp = 0
    /\ nextActivityTick = StatsStartWall + 100
    /\ history = NoHistory
    /\ clipboardReads = <<>>
    /\ statObs = NoStatObs
    /\ ideal = NoHistory
    /\ tainted = FALSE
    /\ debugMutated = FALSE
    /\ statLog = NoStatLog
    /\ nStatTicks = 0
    /\ nStatEnv = 0
    /\ running = TRUE
    /\ trackingInterval = TRUE
    /\ checkInterval = TRUE
    /\ subscribed = TRUE
    /\ debounceTimer = 0
    /\ historyFile = history
    /\ saveLog = NoSaveLog
    /\ slot = NoSlot
    /\ \E tag \in Tags, last \in {NoVersion, cleanVersion(FirstTag)} :
           update = [NoUpdate EXCEPT !.release = tag, !.lastNotifiedVersion = last]

UpdateNext ==
    \/ wall < StatsStartWall + MaxUpdateMs /\ Elapse
    \/ nEnv < MaxUpdateResets /\ ResetForNewDay
    \/ \E i \in 1..4 : UpdateTimerFires(i)
    \/ ManualCheck
    \/ \E i \in 1..4 : FetchResolves(i)
    \/ \E i \in 1..4 : FetchFails(i)
    \/ \E i \in 1..4 : NotificationResolves(i)
    \/ \E tag \in Tags : ReleasePublished(tag)

UpdateSpec == UpdateInit /\ [][UpdateNext]_vars

----------------------------------------------------------------------------
(* The slot machine of an open dashboard, with the debug panel             *)

MaxSlotDebug == 1

\* the scores calculateScore gives in the model; a score above 0 has win details
Scores == {0, 10}

\* the payloads of the debug panel: RESET SLOT and FORCE DONE
ResetSlotPayload == [runsRemaining |-> 1, currentEnergy |-> 3, currentScore |-> 0]
ForceDonePayload == [runsRemaining |-> 0, currentEnergy |-> 0, currentScore |-> 5000]

\* handleSpin: neither of its two returns is taken
canSpin(shotsLeft, gameActive, phase) ==
    /\ ~(shotsLeft <= 0 \/ ~gameActive)
    /\ ~(phase # "IDLE" /\ phase # "SHOW_WINS")

\* isButtonDisabled && !isFinished
buttonDisabled(sl) ==
    /\ sl.phase # "IDLE" /\ sl.phase # "ROUND_COMPLETE" /\ sl.phase # "SHOW_WINS"
    /\ ~(sl.shotsLeft = 0)

\* handleMainButtonClick: the analysis when finished, else handleSpin
MainButtonClick ==
    /\ running
    /\ ~buttonDisabled(slot)
    /\ slot' = IF slot.shotsLeft # 0
                  /\ canSpin(slot.shotsLeft, ~slot.gameOver, slot.phase)
               THEN [slot EXCEPT !.phase = "SPINNING", !.stopped = 0,
                                 !.wins = FALSE, !.cycleCount = 0,
                                 !.spins = @ + 1, !.path = <<"SPINNING">>]
               ELSE slot
    /\ UNCHANGED <<wall, cfg, schedVars, statsVars, hostVars, storeVars, update>>

\* spinTick once SPIN_DURATION has passed
SpinTimerDone ==
    /\ running
    /\ slot.phase = "SPINNING"
    /\ slot' = [slot EXCEPT !.phase = "STOPPING", !.path = Append(@, "STOPPING")]
    /\ UNCHANGED <<wall, cfg, schedVars, statsVars, hostVars, storeVars, update>>

\* handleReelStop, called by a reel that has come to rest
ReelStops ==
    /\ running
    /\ slot.phase = "STOPPING"
    /\ slot' = IF slot.stopped + 1 = COLS
               THEN [slot EXCEPT !.stopped = 0, !.phase = "EVALUATE",
                                 !.path = Append(@, "EVALUATE")]
               ELSE [slot EXCEPT !.stopped = @ + 1]
    /\ UNCHANGED <<wall, cfg, schedVars, statsVars, hostVars, storeVars, update>>

\* handleSpinComplete(result): the game state it returns and the message it posts
handleSpinComplete(sl, score) ==
    LET newScore == sl.totalScore + score
        newShots == sl.shotsLeft - 1
        isGameOver == (newShots = 0)
        runsRemaining == IF isGameOver THEN sl.props.runsRemaining - 1
                         ELSE sl.props.runsRemaining
    IN  [sl EXCEPT !.shotsLeft = newShots,
                   !.totalScore = newScore,
                   !.gameOver = isGameOver,
                   !.reports = @ + 1,
                   !.toHost = Append(@, [runsRemaining |-> runsRemaining,
                                         currentEnergy |-> newShots,
                                         currentScore |-> newScore])]

\* the effect of phase EVALUATE
Evaluate(score) ==
    /\ running
    /\ slot.phase = "EVALUATE"
    /\ slot' = [handleSpinComplete(slot, score) EXCEPT
           !.wins = (score > 0),
           !.cycleCount = 0,
           !.phase = IF score > 0 THEN "SHOW_WINS" ELSE "ROUND_COMPLETE"]
    /\ UNCHANGED <<wall, cfg, schedVars, statsVars, hostVars, storeVars, update>>

\* advanceWinDisplay, one win detail on show
AdvanceWinDisplay ==
    /\ running
    /\ slot.phase = "SHOW_WINS"
    /\ slot' = IF slot.cycleCount + 1 >= MAX_CYCLES
               THEN [slot EXCEPT !.phase = "ROUND_COMPLETE"]
               ELSE [slot EXCEPT !.cycleCount = @ + 1]
    /\ UNCHANGED <<wall, cfg, schedVars, statsVars, hostVars, storeVars, update>>

\* the effect of phase ROUND_COMPLETE
RoundComplete ==
    /\ running
    /\ slot.phase = "ROUND_COMPLETE"
    /\ slot' = [slot EXCEPT !.phase = "IDLE"]
    /\ UNCHANGED <<wall, cfg, schedVars, statsVars, hostVars, storeVars, update>>

\* a button of the debug panel: the 'saveSlotState' message it posts
DebugSlotButton(payload) ==
    /\ running
    /\ slot.debugs < MaxSlotDebug
    /\ slot' = [slot EXCEPT !.debugs = @ + 1,
                            !.debugResets = IF payload = ResetSlotPayload THEN @ + 1 ELSE @,
                            !.toHost = Append(@, payload)]
    /\ UNCHANGED <<wall, cfg, schedVars, statsVars, hostVars, storeVars, update>>

\* DashboardPanel, case "saveSlotState": updateToday, then sendUpdate()
SaveSlotState ==
    /\ running
    /\ slot.toHost # <<>>
    /\ LET key == getTodayKey(wall, cfg)
           payload == Head(slot.toHost)
       IN  /\ history' = withToday(history, key)
           /\ ideal' = withToday(ideal, key)
           /\ slot' = sendUpdate([slot EXCEPT !.toHost = Tail(@),
                                              !.saved = withSlotState(@, key, payload)],
                                 payload)
    /\ debounceTimer' = requestSave(wall)
    /\ update' = afterGetToday(update, history, history')
    /\ UNCHANGED <<wall, cfg, schedVars, hostVars, historyFile, saveLog,
                   lastHumanTypeTime, lastPasteTime, lastManualTime, isFocused,
                   zombieStartTimestamp, nextActivityTick, clipboardReads,
                   statObs, tainted, debugMutated, statLog, nStatTicks, nStatEnv>>

\* the "Reactive State Sync" effect of the Dashboard on new props
syncGameState(sl, st) ==
    IF st.runsRemaining <= 0
    THEN IF ~sl.gameOver
         THEN [sl EXCEPT !.gameOver = TRUE,
                         !.shotsLeft = st.currentEnergy,
                         !.totalScore = st.currentScore]
         ELSE sl
    ELSE IF sl.gameOver
         THEN [sl EXCEPT !.gameOver = FALSE,
                         !.shotsLeft = st.currentEnergy,
                         !.totalScore = st.currentScore]
         ELSE sl

\* the webview receives an 'update' message whose slotState differs
UpdateReceived ==
    /\ running
    /\ slot.toView # <<>>
    /\ slot' = syncGameState([slot EXCEPT !.toView = Tail(@),
                                          !.props = Head(slot.toView)],
                             Head(slot.toView))
    /\ UNCHANGED <<wall, cfg, schedVars, statsVars, hostVars, storeVars, update>>

\* the slotState the dashboard may be opened on: a fresh day, a run resumed
\* with one spin left, a run used up
SavedStates == {DefaultSlotState,
                [runsRemaining |-> 1, currentEnergy |-> 1, currentScore |-> 10],
                [runsRemaining |-> 0, currentEnergy |-> 0, currentScore |-> 20]}

SlotInit ==
    /\ wall = StatsStartWall
    /\ cfg = DefaultCfg
    /\ SchedStart
    /\ StatsStart
    /\ running = TRUE
    /\ trackingInterval = TRUE
    /\ checkInterval = TRUE
    /\ subscribed = TRUE
    /\ debounceTimer = 0
    /\ historyFile = history
    /\ saveLog = NoSaveLog
    /\ update = NoUpdate
    /\ \E st \in SavedStates :
           slot = initialGameState(
                      [SlotBlank EXCEPT !.saved = withSlotState(@, getTodayKey(wall, cfg), st)],
                      st)

SlotNext ==
    \/ MainButtonClick
    \/ SpinTimerDone
    \/ ReelStops
    \/ \E score \in Scores : Evaluate(score)
    \/ AdvanceWinDisplay
    \/ RoundComplete
    \/ \E payload \in {ResetSlotPayload, ForceDonePayload} : DebugSlotButton(payload)
    \/ SaveSlotState
    \/ UpdateReceived

SlotSpec == SlotInit /\ [][SlotNext]_vars

----------------------------------------------------------------------------
(* Properties of the scheduler *)

\* the window (-60000, -2000] of the hard stop
inHardStopWindow(diffMs) == -60000 < diffMs /\ diffMs <= -2000

\* C1: a tick presents the hard stop exactly when hardStopActive is false and
\* -60000 < diff <= -2000, wherever in that window the tick lands.
C1_HardStopAnywhereInWindow ==
    (obs.op = "tick" /\ ~obs.nan) =>
        (obs.presented <=> (~obs.active /\ inHardStopWindow(obs.diff)))

\* C2: ticks crossing the deadline present the hard stop once: the tick that
\* lands in the trigger window with no dialog open presents it, no tick made
\* while hardStopActive is true presents another, and at most one is presented
\* between two snoozes or resets.
C2_HardStopSingleFire ==
    /\ shownSince <= 1
    /\ (obs.op = "tick" /\ obs.active) => ~obs.presented
    /\ (obs.op = "tick" /\ ~obs.nan /\ ~obs.active /\ obs.diff \in {-2000, -2500, -3000})
           => (obs.presented /\ shownSince = 1)

\* a tick at diff = -3000 that found the dialog of the tick at -2000 still open
C2_Witness ==
    /\ obs.op = "tick" /\ obs.active /\ obs.diff = -3000
    /\ shownSince = 1 /\ nEnv = 0

\* a call of triggerHardStop is recorded by the step that made it
hardStopCalled(o) ==
    \/ o.op = "manual"
    \/ o.op \in {"tick", "config"} /\ ~o.nan /\ hardStopCondition(o.diff)

\* C3: at most one hard-stop dialog is open, hardStopActive is true exactly
\* while one is open, and a triggerHardStop call made while hardStopActive is
\* true presents nothing and changes no scheduler state.
C3_AtMostOneDialog ==
    /\ [](Len(dialogs) <= 1 /\ (isHardStopActive <=> Len(dialogs) = 1))
    /\ [][(isHardStopActive /\ hardStopCalled(obs'))
            => (/\ ~obs'.presented
                /\ UNCHANGED <<debugTimeOffset, snoozedUntil, softNudgeFired,
                               isHardStopActive, dialogs>>)]_vars

\* a configuration change whose time check calls triggerHardStop while the
\* dialog is open
C3_Witness ==
    /\ obs.op = "config" /\ obs.active /\ hardStopCalled(obs)
    /\ isHardStopActive /\ Len(dialogs) = 1

\* C4: after snooze(m) at time T, with no later snooze or reset, the target
\* deadline is T + m*60000 for every now up to that value, whatever the
\* configuration.
C4_SnoozeOverridesDeadline ==
    (lastSnooze.at > 0 /\ now <= lastSnooze.at + lastSnooze.minutes * 60000) =>
        getTargetBedtimeTimestamp(snoozedUntil, now, cfg)
            = lastSnooze.at + lastSnooze.minutes * 60000

\* the clock has reached the end of a 30-minute snooze, under a bedtime
\* other than the one configured when the snooze was made
C4_Witness ==
    /\ lastSnooze.at > 0 /\ lastSnooze.minutes = 30
    /\ now = lastSnooze.at + 30 * 60000
    /\ cfg.bedtime = Bedtime0100

\* C5: once now has passed snoozedUntil, the target deadline is the one
\* computed from the session day and the configured bedtime.
C5_ExpiredSnoozeYields ==
    (snoozedUntil > 0 /\ now > snoozedUntil /\ bedtimeParses(cfg.bedtime)) =>
        getTargetBedtimeTimestamp(snoozedUntil, now, cfg)
            = getTargetBedtimeTimestamp(0, now, cfg)

\* the minutes each button of the dialog stands for
buttonMinutes(sel) ==
    CASE sel = "Snooze 30m" -> 30
      [] sel = "Snooze 1h" -> 60
      [] sel = "Snooze 2h" -> 120

\* C6 as stated: every resolution clears hardStopActive and snoozes from the
\* time of the resolution for the chosen duration, a dismissal for the
\* autoSnoozeMinutes configured when the dialog is dismissed.
C6_ResolutionSnoozesConfigured ==
    obs.op = "resolve" =>
        /\ ~isHardStopActive
        /\ snoozedUntil = now + 60000 *
               (IF obs.sel = "dismissed" THEN cfg.autoSnoozeMinutes
                ELSE buttonMinutes(obs.sel))

\* C6 amended: a dismissal snoozes for the autoSnoozeMinutes that were
\* configured when the hard stop was triggered.
C6_ResolutionSnoozes ==
    obs.op = "resolve" =>
        /\ ~isHardStopActive
        /\ snoozedUntil = now + 60000 *
               (IF obs.sel = "dismissed" THEN obs.captured
                ELSE buttonMinutes(obs.sel))

\* a dismissal after the configured autoSnoozeMinutes changed under the dialog
C6_Witness ==
    /\ obs.op = "resolve" /\ obs.sel = "dismissed"
    /\ obs.captured # cfg.autoSnoozeMinutes
    /\ snoozedUntil = now + 60000 * obs.captured

----------------------------------------------------------------------------
(* Properties of the statistics components *)

\* the record of the session day of the current instant
today == todayOf(history, getTodayKey(wall, cfg))

\* the record of the session day of the last statistics step
touched == todayOf(history, statObs.key)

\* C7: typingSeconds + reviewingSeconds = activeSeconds in the current day's
\* record (and in every stored record) after every sequence of activity ticks,
\* revival credits, resetForNewDay calls and session-day rollovers (no debug
\* command having written a counter directly).
C7_ActivityInvariant ==
    ~debugMutated =>
    /\ today.typingSeconds + today.reviewingSeconds = today.activeSeconds
    /\ \A k \in DOMAIN history :
           history[k].typingSeconds + history[k].reviewingSeconds
               = history[k].activeSeconds

\* a revival has just credited a record that already held typing seconds from
\* ticks
C7_Witness ==
    /\ ~debugMutated
    /\ statObs.op = "change"
    /\ statObs.secondsAdded > 0
    /\ touched.typingSeconds > 0
    /\ touched.reviewingSeconds >= statObs.secondsAdded
    /\ touched.activeSeconds >= touched.typingSeconds + statObs.secondsAdded

\* C8: every counter of every daily record is non-negative in every reachable
\* state, also when a clipboard correction completes after a reset or a
\* rollover.
C8_CountersNonNegative ==
    \A k \in DOMAIN history :
        /\ history[k].activeSeconds >= 0
        /\ history[k].typingSeconds >= 0
        /\ history[k].reviewingSeconds >= 0
        /\ history[k].humanTypedLines >= 0
        /\ history[k].humanRefactoredLines >= 0
        /\ history[k].aiGeneratedLines >= 0
        /\ history[k].aiEditedLines >= 0
        /\ history[k].humanChars >= 0
        /\ history[k].aiChars >= 0
        /\ history[k].refactorChars >= 0

\* the record a matching clipboard correction must leave, counter by counter
correctedRecord(before, r) ==
    [before EXCEPT
        !.aiChars = @ - r.len,
        !.aiEditedLines = IF r.rangeLength > 0 THEN @ - r.lines ELSE @,
        !.aiGeneratedLines = IF r.rangeLength > 0 THEN @ ELSE @ - r.lines,
        !.refactorChars = @ + r.len,
        !.humanRefactoredLines = @ + r.lines]

\* C9: a matching clipboard correction removes exactly the AI credit of its
\* change and adds the safe-paste credit in one mutation, and once every
\* pending correction has completed (no reset or rollover having come between
\* a change and its correction) the counters are those obtained had each
\* matching change been credited as a safe paste when it occurred, whatever
\* document changes were interleaved.
C9_CorrectionEqualsSafePaste ==
    /\ (statObs.op = "clipboard" /\ statObs.read.matches)
           => touched = correctedRecord(statObs.before, statObs.read)
    /\ (statObs.op = "clipboard" /\ ~statObs.read.matches)
           => touched = statObs.before
    /\ (clipboardReads = <<>> /\ ~tainted) => history = ideal

\* a matching correction has just completed after another document change was
\* handled between the change and its correction
C9_Witness ==
    /\ statObs.op = "clipboard"
    /\ statObs.read.matches
    /\ statObs.read.since > 0
    /\ clipboardReads = <<>>
    /\ ~tainted

RECURSIVE sumSeq(_)
\* the sum of a sequence of numbers
sumSeq(seq) == IF seq = <<>> THEN 0 ELSE Head(seq) + sumSeq(Tail(seq))

\* the record the classification order of C10 must leave after an event
expectedRecord(before, changes, msSinceType, msSincePaste) ==
    LET sumOver(chs, f(_)) == sumSeq([i \in 1..Len(chs) |-> f(chs[i])])
        deletion(ch) == ch.len = 0
        paste(ch) == ~deletion(ch) /\ msSincePaste < 100
        typed(ch) == ~deletion(ch) /\ ~paste(ch) /\ msSinceType < 100
        ai(ch) == ~deletion(ch) /\ ~paste(ch) /\ ~typed(ch) /\ ch.len > 5
        tiny(ch) == ~deletion(ch) /\ ~paste(ch) /\ ~typed(ch) /\ ~ai(ch)
        refLines(ch) == IF deletion(ch) THEN ch.deleted
                        ELSE IF paste(ch) THEN ch.lines ELSE 0
        refChars(ch) == IF paste(ch) THEN ch.len ELSE 0
        humChars(ch) == IF typed(ch) \/ tiny(ch) THEN ch.len ELSE 0
        humLines(ch) == IF typed(ch) \/ tiny(ch) THEN ch.lines ELSE 0
        aiCh(ch) == IF ai(ch) THEN ch.len ELSE 0
        aiEdit(ch) == IF ai(ch) /\ ch.rangeLength > 0 THEN ch.lines ELSE 0
        aiGen(ch) == IF ai(ch) /\ ch.rangeLength = 0 THEN ch.lines ELSE 0
    IN  [before EXCEPT
            !.humanRefactoredLines = @ + sumOver(changes, refLines),
            !.refactorChars = @ + sumOver(changes, refChars),
            !.humanChars = @ + sumOver(changes, humChars),
            !.humanTypedLines = @ + sumOver(changes, humLines),
            !.aiChars = @ + sumOver(changes, aiCh),
            !.aiEditedLines = @ + sumOver(changes, aiEdit),
            !.aiGeneratedLines = @ + sumOver(changes, aiGen)]

\* C10: a document change that is not an undo or redo is credited by the first
\* matching rule of: deletion, paste under 100 ms, keystroke under 100 ms,
\* length over 5 (edited if it replaced a range, else generated), else human
\* typing.  A change within 100 ms of both a paste and a keystroke is a paste,
\* a delay of exactly 100 ms is not fresh, length 5 is human and length 6 is
\* AI.
C10_FirstMatchingRule ==
    statObs.op = "change" =>
        /\ touched = expectedRecord(statObs.before, statObs.changes,
                                  statObs.msSinceType, statObs.msSincePaste)
        /\ (statObs.changes = <<Insert6>> /\ statObs.msSincePaste < 100
               /\ statObs.msSinceType < 100)
              => (/\ touched.refactorChars = statObs.before.refactorChars + 6
                  /\ touched.humanChars = statObs.before.humanChars
                  /\ touched.aiChars = statObs.before.aiChars)
        /\ (statObs.changes = <<Insert6>> /\ statObs.msSincePaste = 100
               /\ statObs.msSinceType = 100)
              => (/\ touched.aiChars = statObs.before.aiChars + 6
                  /\ touched.refactorChars = statObs.before.refactorChars
                  /\ touched.humanChars = statObs.before.humanChars)
        /\ (statObs.changes = <<Insert5>> /\ statObs.msSincePaste >= 100
               /\ statObs.msSinceType >= 100)
              => (/\ touched.humanChars = statObs.before.humanChars + 5
                  /\ touched.aiChars = statObs.before.aiChars)
        /\ (statObs.changes = <<Insert6>> /\ statObs.msSincePaste >= 100
               /\ statObs.msSinceType >= 100)
              => (/\ touched.aiChars = statObs.before.aiChars + 6
                  /\ touched.humanChars = statObs.before.humanChars)

\* a change of length 6 has just been credited as a paste, 99 ms after both a
\* paste and a keystroke
C10_Witness ==
    /\ statObs.op = "change"
    /\ statObs.changes = <<Insert6>>
    /\ statObs.msSincePaste = 99
    /\ statObs.msSinceType = 99
    /\ touched.refactorChars = statObs.before.refactorChars + 6

----------------------------------------------------------------------------
(* Properties of the classifier *)

\* the four line counters
LineCounters == {"humanTypedLines", "humanRefactoredLines", "aiGeneratedLines",
                 "aiEditedLines"}

\* the line counters that are larger in record b than in record a
incremented(a, b) == {c \in LineCounters : b[c] > a[c]}

\* the line counters that are smaller in record b than in record a
decremented(a, b) == {c \in LineCounters : b[c] < a[c]}

\* the lines a content change carries: inserted newlines, or the deleted span
linesOf(ch) == IF ch.len = 0 THEN ch.deleted ELSE ch.lines

\* C11 as stated: any single document-change event increments exactly one of
\* the four line counters.
C11_ExactlyOneLineCounter ==
    statObs.op = "change" =>
        /\ Cardinality(incremented(statObs.before, touched)) = 1
        /\ decremented(statObs.before, touched) = {}

\* C11 amended: each content change increments at most one line counter, and
\* none when it carries no line; an event of n content changes increments at
\* most n of them and decrements none.  The clipboard correction decrements
\* one AI line counter and increments humanRefactoredLines as a unit.
C11_AtMostOneLineCounterPerChange ==
    /\ statObs.op = "change" =>
           /\ Cardinality(incremented(statObs.before, touched)) <= Len(statObs.changes)
           /\ decremented(statObs.before, touched) = {}
           /\ Len(statObs.changes) = 1 =>
                  Cardinality(incremented(statObs.before, touched))
                      = (IF linesOf(statObs.changes[1]) > 0 THEN 1 ELSE 0)
    /\ (statObs.op = "clipboard" /\ statObs.read.matches /\ statObs.read.lines > 0) =>
           /\ incremented(statObs.before, touched) = {"humanRefactoredLines"}
           /\ decremented(statObs.before, touched)
                  = {IF statObs.read.rangeLength > 0 THEN "aiEditedLines"
                     ELSE "aiGeneratedLines"}

\* an event of two content changes has just incremented two line counters
C11_Witness ==
    /\ statObs.op = "change"
    /\ statObs.changes = <<Deletion2, Insert6>>
    /\ incremented(statObs.before, touched) = {"humanRefactoredLines", "aiGeneratedLines"}

\* C12: over a sequence of pure-deletion events (no other content change
\* having been credited) humanRefactoredLines has grown by the total of the
\* deleted line spans, whether the deletions came one per event or batched
\* (undo and redo events are not classified and not counted).
C12_DeletionCrediting ==
    (today.humanChars = 0 /\ today.aiChars = 0 /\ today.refactorChars = 0) =>
        today.humanRefactoredLines = statLog.deletedSpan

\* a deletion of span 2 as one event and then two deletions of span 2 batched
\* in one event have been credited 6 lines
C12_Witness ==
    /\ statObs.op = "change"
    /\ statObs.changes = <<Deletion2, Deletion2>>
    /\ statObs.before.humanRefactoredLines = 2
    /\ statLog.deletedSpan = 6
    /\ today.humanRefactoredLines = 6
    /\ today.humanChars = 0 /\ today.aiChars = 0 /\ today.refactorChars = 0

\* C13: an event of pure deletions changes humanRefactoredLines by the deleted
\* span and no other counter, whatever the time since the last keystroke or
\* paste; with a span of 0 it changes nothing.
C13_DeletionFrame ==
    (statObs.op = "change" /\ \A i \in 1..Len(statObs.changes) : statObs.changes[i].len = 0)
        => touched = [statObs.before EXCEPT
                         !.humanRefactoredLines = @ + deletedSpanOf(statObs.changes)]

\* a deletion of span 2 has just been handled at the instant of a paste and
\* of a keystroke
C13_Witness ==
    /\ statObs.op = "change"
    /\ statObs.changes = <<Deletion2>>
    /\ statObs.msSincePaste = 0
    /\ statObs.msSinceType = 0
    /\ touched.humanRefactoredLines = statObs.before.humanRefactoredLines + 2
    /\ touched.refactorChars = statObs.before.refactorChars

----------------------------------------------------------------------------
(* Properties of the activity tracker *)

\* the last step was a document change (classified or an undo)
changed == statObs.op \in {"change", "undo"}

\* the last step was a tick of the activity loop
ticked == statObs.op \in {"activeTick", "idleTick"}

\* C14: with the zombie marker set at T, a document change that carries no human
\* signal at T + d credits floor(d / 1000) seconds to both activeSeconds and
\* reviewingSeconds when d < 300000 ms and nothing when d >= 300000 ms; no
\* revival credits 300 seconds or more; the marker is null after the change.
C14_RevivalBound ==
    (changed /\ statObs.zombieBefore # 0 /\ ~isHumanInput(statObs.msSinceType)) =>
        LET d == statObs.at - statObs.zombieBefore
            credit == IF d < 300000 THEN d \div 1000 ELSE 0
        IN  /\ statObs.before = [statObs.start EXCEPT !.activeSeconds = @ + credit,
                                                       !.reviewingSeconds = @ + credit]
            /\ credit < 300
            /\ zombieStartTimestamp = 0

\* a change 299999 ms after the time of death has credited 299 s
C14_Witness ==
    /\ changed
    /\ statObs.zombieBefore # 0
    /\ ~isHumanInput(statObs.msSinceType)
    /\ statObs.at - statObs.zombieBefore = 299999
    /\ statObs.before.activeSeconds = statObs.start.activeSeconds + 299
    /\ statObs.before.reviewingSeconds = statObs.start.reviewingSeconds + 299

\* C15: a document change with a fresh human signal while the zombie marker is
\* set clears the marker and leaves activeSeconds, typingSeconds and
\* reviewingSeconds as they were; a later revival credits only time after that
\* human edit (its zombie marker was set after the edit).
C15_HumanEditEndsZombie ==
    /\ (changed /\ statObs.zombieBefore # 0 /\ isHumanInput(statObs.msSinceType)) =>
            /\ zombieStartTimestamp = 0
            /\ statObs.before = statObs.start
    /\ (changed /\ statObs.before # statObs.start) =>
            /\ statObs.zombieBefore >= statLog.humanEditAt
            /\ statObs.before.activeSeconds - statObs.start.activeSeconds
                   = (statObs.at - statObs.zombieBefore) \div 1000
    /\ zombieStartTimestamp # 0 => zombieStartTimestamp >= statLog.humanEditAt

\* a human edit has just ended a zombie window
C15_Witness ==
    /\ changed
    /\ statObs.zombieBefore # 0
    /\ isHumanInput(statObs.msSinceType)
    /\ statObs.at > statObs.zombieBefore
    /\ zombieStartTimestamp = 0

\* C16: a tick counts the session as active exactly when the window is focused
\* and the time since the last human input is below the configured idle
\* timeout (idleTimeoutSeconds * 1000 ms).
C16_ConfiguredIdleTimeout ==
    ticked => (statObs.op = "activeTick"
                  <=> (statObs.focused /\ statObs.msSinceType < statObs.idleTimeoutMs))

\* C17: an active tick adds 1 to activeSeconds and 1 to typingSeconds (less than
\* 2000 ms since the last human input) or to reviewingSeconds (otherwise), and
\* nothing else; an idle tick leaves the record as it was.
C17_TickCredit ==
    /\ statObs.op = "activeTick" =>
            touched = [statObs.before EXCEPT
                          !.activeSeconds = @ + 1,
                          !.typingSeconds =
                              @ + (IF statObs.msSinceType < 2000 THEN 1 ELSE 0),
                          !.reviewingSeconds =
                              @ + (IF statObs.msSinceType < 2000 THEN 0 ELSE 1)]
    /\ statObs.op = "idleTick" => touched = statObs.before

\* an active tick two seconds or more after the last input: a reviewing second
C17_Witness ==
    /\ statObs.op = "activeTick"
    /\ statObs.msSinceType >= 2000
    /\ touched.reviewingSeconds = statObs.before.reviewingSeconds + 1

\* C18: the zombie marker is null after an active tick and set after an idle
\* tick; an idle tick that finds it set leaves it, one that finds it null sets
\* it to the time of the tick.
C18_ZombieMarker ==
    /\ statObs.op = "activeTick" => zombieStartTimestamp = 0
    /\ statObs.op = "idleTick" =>
            /\ zombieStartTimestamp # 0
            /\ statObs.zombieBefore # 0 => zombieStartTimestamp = statObs.zombieBefore
            /\ statObs.zombieBefore = 0 => zombieStartTimestamp = statObs.at

\* a second idle tick has kept the time of the first
C18_Witness ==
    /\ statObs.op = "idleTick"
    /\ statObs.zombieBefore # 0
    /\ zombieStartTimestamp = statObs.zombieBefore
    /\ statObs.at > statObs.zombieBefore

\* C19: the revival rule judges a document change by the 100 ms window of the
\* classifier: with the zombie marker set, a change 100 ms or more after the
\* last keystroke gets the revival credit, and one less than 100 ms after it
\* gets none.
C19_SameHumanWindow ==
    (changed /\ statObs.zombieBefore # 0) =>
        LET credit == IF isFreshTyping(statObs.msSinceType) THEN 0
                      ELSE revivalSeconds(statObs.zombieBefore, statObs.at)
        IN  statObs.before = [statObs.start EXCEPT !.activeSeconds = @ + credit,
                                                   !.reviewingSeconds = @ + credit]

\* C20: a tick is idle only when the idle timeout has passed since the last
\* human input, whether the window is focused or not, so that a focus loss
\* within the timeout never sets the zombie marker.
C20_BlurKeepsSessionActive ==
    statObs.op = "idleTick" =>
        /\ statObs.msSinceType >= IdleTimeoutMs
        /\ zombieStartTimestamp - statObs.at + statObs.msSinceType >= IdleTimeoutMs

----------------------------------------------------------------------------
(* Properties of the deadline computation *)

\* the calendar date of an instant, as a day number
calendarDate(t) == t \div MsPerDay

\* the time of day of an instant, in ms
timeOfDay(t) == t % MsPerDay

\* the last step was a time check, and no snooze was set
checkedUnsnoozed == obs.op \in {"tick", "config"} /\ ~obs.nan /\ snoozedUntil = 0

\* the deadline the last time check computed
checkedTarget == now + obs.diff

\* the days the deadline lies after the date it is built on
nextDayShift == IF bedHour(cfg.bedtime) < cfg.dayStartHour THEN 1 ELSE 0

\* C21: with no snooze set, the deadline is built on the previous calendar date
\* when the scheduler's hour is before dayStartHour and on the current date
\* otherwise; for dayStartHour 4, bedtime 23:00 and 03:00 the deadline is the
\* previous date at 23:00 and diff is negative.
C21_SessionDate ==
    checkedUnsnoozed =>
        /\ calendarDate(checkedTarget) - nextDayShift
               = IF getHours(now) < cfg.dayStartHour THEN calendarDate(now) - 1
                                                     ELSE calendarDate(now)
        /\ (cfg = DefaultCfg /\ timeOfDay(now) = 3 * MsPerHour) =>
               /\ checkedTarget = (calendarDate(now) - 1) * MsPerDay + 23 * MsPerHour
               /\ obs.diff = -(4 * MsPerHour)

\* at 03:00 with the default configuration
C21_Witness ==
    /\ checkedUnsnoozed
    /\ cfg = DefaultCfg
    /\ timeOfDay(now) = 3 * MsPerHour
    /\ obs.diff < 0

\* C22: with no snooze set, the deadline is at the bedtime of the day after the
\* session date exactly when the bedtime hour is less than dayStartHour, and at
\* the bedtime of the session date otherwise; for dayStartHour 4, bedtime 01:00
\* and 10:00 it is 01:00 of the next calendar date.
C22_NextDayBedtime ==
    checkedUnsnoozed =>
        LET sessionDate == IF getHours(now) < cfg.dayStartHour
                           THEN calendarDate(now) - 1 ELSE calendarDate(now)
            bedMs == bedHour(cfg.bedtime) * MsPerHour + bedMinute(cfg.bedtime) * MsPerMinute
        IN  /\ timeOfDay(checkedTarget) = bedMs
            /\ bedHour(cfg.bedtime) < cfg.dayStartHour =>
                   calendarDate(checkedTarget) = sessionDate + 1
            /\ bedHour(cfg.bedtime) >= cfg.dayStartHour =>
                   calendarDate(checkedTarget) = sessionDate
            /\ (cfg = [DefaultCfg EXCEPT !.bedtime = Bedtime0100]
                   /\ timeOfDay(now) = 10 * MsPerHour) =>
                   checkedTarget = (calendarDate(now) + 1) * MsPerDay + MsPerHour

\* at 10:00 with bedtime 01:00
C22_Witness ==
    /\ checkedUnsnoozed
    /\ cfg = [DefaultCfg EXCEPT !.bedtime = Bedtime0100]
    /\ timeOfDay(now) = 10 * MsPerHour
    /\ obs.diff = 15 * MsPerHour

----------------------------------------------------------------------------
(* Properties of snooze, the soft nudge and reset *)

\* the last step was a call of snooze (from the dashboard or the dialog)
snoozed == obs.op \in {"snooze", "resolve"}

\* C23: snooze(m) at scheduler time T sets snoozedUntil to T + m * 60000 whatever
\* it was before: the last of two snoozes alone determines it, also when that
\* brings the deadline forward.
C23_SnoozeOverwrites ==
    snoozed => snoozedUntil = now + obs.minutes * 60000

\* a snooze has replaced a running one by an earlier deadline
C23_Witness ==
    /\ snoozed
    /\ obs.snoozedBefore > now
    /\ snoozedUntil < obs.snoozedBefore
    /\ snoozedUntil = now + obs.minutes * 60000

\* the lead time of the soft nudge, in ms
nudgeLeadTime == cfg.softNudgeMinutes * 60 * 1000

\* the last time check found the time remaining within the window of the nudge
inNudgeWindow == ~obs.nan /\ Abs(obs.diff - nudgeLeadTime) < 1500

\* what every time check does about the nudge: it emits it only within the
\* window and with the flag down, and the flag is up after a check in the window
nudgeOncePerPass ==
    /\ (obs.op \in {"tick", "config"} /\ obs.nudged) =>
            inNudgeWindow /\ ~obs.fired /\ softNudgeFired
    /\ (obs.op \in {"tick", "config"} /\ inNudgeWindow) =>
            softNudgeFired /\ (obs.nudged <=> ~obs.fired)

C25_NudgeRefiresAfterSnooze ==
    (obs.op = "tick" /\ inNudgeWindow /\ nudgeLog.target > 0 /\ snoozedUntil > 0) =>
        nudgeLog.target >= snoozedUntil

----------------------------------------------------------------------------
(* Properties of the snooze guard and of the simulated clock *)

\* C26: handleSnooze(target) returns TOO_EARLY exactly when the clock is before
\* target - 30 min, STALE_RESET exactly when it is after target + 2 h, and
\* success otherwise (the two instants themselves are accepted); the call
\* changes nothing of the scheduler or of the statistics.
C26_SnoozeGuard ==
    /\ [](obs.op = "handleSnooze" =>
             /\ obs.result = "TOO_EARLY" <=> wall < obs.arg - 1800000
             /\ obs.result = "STALE_RESET" <=> wall > obs.arg + 7200000
             /\ obs.result = "success" <=>
                    (obs.arg - 1800000 <= wall /\ wall <= obs.arg + 7200000))
    /\ [][obs'.op = "handleSnooze" =>
             UNCHANGED <<snoozedUntil, softNudgeFired, isHardStopActive,
                         debugTimeOffset, dialogs, history>>]_vars

\* the guard has accepted a call at the very instant target - 30 min
C26_Witness ==
    /\ obs.op = "handleSnooze"
    /\ wall = obs.arg - 1800000
    /\ obs.result = "success"

\* C27: a snooze requested from the dashboard takes effect only when
\* handleSnooze accepts it: when the request comes more than 30 minutes before
\* the deadline or more than 2 hours after it, snoozedUntil is left as it was.
C27_DashboardSnoozeGuarded ==
    (obs.op = "snooze" /\ handleSnooze(wall, obs.target) # "success"
                       /\ handleSnooze(now, obs.target) # "success") =>
        snoozedUntil = obs.snoozedBefore

\* C30: every read of the time in the scheduler is of the wall clock plus the
\* debug offset: a time check measures diff from it, snooze counts from it and
\* handleSnooze judges by it.
C30_SimulatedClockEverywhere ==
    /\ (obs.op \in {"tick", "config"} /\ ~obs.nan /\ snoozedUntil > 0) =>
            obs.diff = snoozedUntil - (wall + debugTimeOffset)
    /\ obs.op = "snooze" => snoozedUntil = wall + debugTimeOffset + obs.minutes * 60000
    /\ obs.op = "handleSnooze" =>
            obs.result = handleSnooze(wall + debugTimeOffset, obs.arg)

----------------------------------------------------------------------------
(* Properties of reset and of the separation of scheduler and statistics *)

\* the deadline of the session day of now under the configured bedtime
sessionDeadline ==
    LET sessionDate == IF getHours(now) < cfg.dayStartHour
                       THEN calendarDate(now) - 1 ELSE calendarDate(now)
    IN  (sessionDate + nextDayShift) * MsPerDay
            + bedHour(cfg.bedtime) * MsPerHour + bedMinute(cfg.bedtime) * MsPerMinute

\* C28: reset() sets snoozedUntil to 0 and softNudgeFired to false and leaves
\* hardStopActive and the debug offset as they were; right after it the
\* deadline is the one computed from the session day and the bedtime.
C28_ResetFrame ==
    /\ [](obs.op = "reset" =>
             /\ snoozedUntil = 0
             /\ ~softNudgeFired
             /\ isHardStopActive = obs.active
             /\ getTargetBedtimeTimestamp(snoozedUntil, now, cfg) = sessionDeadline)
    /\ [][(obs'.op = "reset" /\ nEnv' # nEnv) =>
             UNCHANGED <<isHardStopActive, debugTimeOffset, dialogs>>]_vars

\* reset() has cleared a snooze and a fired nudge, the hard stop being active
\* and the clock being simulated
C28_Witness ==
    /\ obs.op = "reset"
    /\ obs.snoozedBefore > 0
    /\ obs.fired
    /\ isHardStopActive
    /\ debugTimeOffset # 0
    /\ snoozedUntil = 0
    /\ ~softNudgeFired

\* a step of the scheduler alone: a tick, or another of its operations
schedulerStep == nTicks' # nTicks \/ (nEnv' # nEnv /\ nStatEnv' = nStatEnv)

\* a step of the activity tracker or of the classifier alone
statisticsStep == nStatTicks' # nStatTicks \/ (nStatEnv' # nStatEnv /\ nEnv' = nEnv)

\* the dashboard's new-day step, which calls resetForNewDay() and then reset()
newDayStep == nEnv' # nEnv /\ nStatEnv' # nStatEnv

----------------------------------------------------------------------------
(* Properties of disposal and persistence *)

\* a step that disposes the subscriptions
disposing == saveLog'.disposes # saveLog.disposes

disposed == saveLog.disposes > 0

\* C31: once the components are disposed no tick of the activity tracker or of
\* the scheduler runs; disposing a second time changes nothing; and disposing
\* flushes the pending save: when dispose returns no save is pending and the
\* file holds the history, so the file of a host that has exited is up to date.
C31_DisposeStopsAndFlushes ==
    /\ [][disposed => (nStatTicks' = nStatTicks /\ nTicks' = nTicks)]_vars
    /\ [][(disposed /\ disposing) =>
              UNCHANGED <<trackingInterval, checkInterval, subscribed, debounceTimer,
                          history, historyFile>>]_vars
    /\ [][disposing => (debounceTimer' = 0 /\ historyFile' = history')]_vars
    /\ [](~running => historyFile = history)

----------------------------------------------------------------------------
(* Properties of the day-keyed store *)

\* the record a step found under key k before it changed any counter
foundRecord(k) ==
    IF statObs'.op \in {"change", "undo"} THEN statObs'.start
    ELSE IF statObs'.op \in {"activeTick", "clipboard"} THEN statObs'.before
    ELSE history'[k]

writing == saveLog'.writes # saveLog.writes

\* C33: two writes of the file are at least 1000 ms apart; a write comes only
\* from the one pending request, 1000 ms or more after the last request, and
\* leaves the latest history in the file and nothing pending; the timeout
\* firing when due, the file of a running host holds the latest history
\* whenever no request is pending, which is 1000 ms after the requests stop.
C33_DebouncedSave ==
    /\ [](saveLog.writes >= 2 => saveLog.minGapMs >= SaveDebounceMs)
    /\ [](debounceTimer # 0 => wall <= debounceTimer)
    /\ []((running /\ debounceTimer = 0) => historyFile = history)
    /\ [][writing => /\ debounceTimer # 0
                      /\ wall >= debounceTimer
                      /\ saveLog'.writes = saveLog.writes + 1
                      /\ debounceTimer' = 0
                      /\ historyFile' = history']_vars

\* two bursts of updates have each been written once, the second write holding
\* more than the first
C33_Witness ==
    /\ saveLog.writes = 2
    /\ saveLog.minGapMs >= SaveDebounceMs
    /\ debounceTimer = 0
    /\ historyFile = history
    /\ today.aiChars > 6

----------------------------------------------------------------------------
(* Properties of the configuration *)

\* the setting is two digits, a colon and two digits, an hour below 24 and a
\* minute below 60
isHHMM(bedtime) ==
    /\ Len(bedtime) = 5
    /\ bedtime[3] = ":"
    /\ \A i \in {1, 2, 4, 5} : IsDigit(bedtime[i])
    /\ bedHour(bedtime) < 24
    /\ bedMinute(bedtime) < 60

\* C34: a bedtime that is not HH:MM is rejected when the configuration is
\* read: no time check, by a tick or forced by a change of the configuration,
\* runs under such a bedtime, and none takes a deadline from one.
C34_UnparsableBedtimeRejected ==
    (obs.op \in {"tick", "config"}) =>
        (isHHMM(cfg.bedtime) /\ ~obs.nan)

----------------------------------------------------------------------------
(* Properties of the credited time *)

\* startTracking() ran one period before the first tick of the activity tracker
trackingStartedAt == ActivityStartWall + 100 - ActivityTickMs

\* the whole seconds since tracking started
elapsedSeconds == (wall - trackingStartedAt) \div 1000

\* C35: the active seconds of the session never exceed the whole seconds since
\* tracking started; the time of death is set by an idle tick alone and is
\* cleared by every active tick, so that every tick between it and a revival
\* was idle; and a revival credits no more than the whole seconds since the
\* time of death and clears it.
C35_NoTimeCreditedTwice ==
    /\ [](today.activeSeconds <= elapsedSeconds)
    /\ [][(nStatTicks' # nStatTicks /\ statObs'.op = "activeTick") =>
              zombieStartTimestamp' = 0]_vars
    /\ [][(zombieStartTimestamp' # 0 /\ zombieStartTimestamp' # zombieStartTimestamp) =>
              (nStatTicks' # nStatTicks /\ statObs'.op = "idleTick"
                  /\ zombieStartTimestamp' = wall)]_vars
    /\ [][(nStatEnv' # nStatEnv /\ changed' /\ statObs'.secondsAdded > 0) =>
              /\ zombieStartTimestamp # 0
              /\ statObs'.secondsAdded <= (wall - zombieStartTimestamp) \div 1000
              /\ zombieStartTimestamp' = 0]_vars

\* a revival has credited the idle seconds and an active tick the second after
\* them: every whole second since tracking started but the first is credited
C35_Witness ==
    /\ statObs.op = "activeTick"
    /\ today.reviewingSeconds >= 2
    /\ today.activeSeconds >= 3
    /\ today.activeSeconds + 1 >= elapsedSeconds

----------------------------------------------------------------------------
(* Properties of the session day *)

\* the start of the session day of the scheduler's time: the last instant, not
\* after it, at which a day's clock showed dayStartHour:00
sessionDayStart ==
    ((now - cfg.dayStartHour * MsPerHour) \div MsPerDay) * MsPerDay
        + cfg.dayStartHour * MsPerHour

\* C36: with no snooze set the deadline a time check computes lies in the
\* session day of the time of the check, from its start to 24 hours later,
\* the end excluded; from one check to the next the deadline does not move
\* back, and it moves, by one day exactly, when and only when the clock has
\* passed dayStartHour in between.
C36_DeadlineInSessionDay ==
    /\ [](checkedUnsnoozed =>
              /\ sessionDayStart <= checkedTarget
              /\ checkedTarget < sessionDayStart + MsPerDay)
    /\ [][(checkedUnsnoozed /\ checkedUnsnoozed' /\ nTicks' # nTicks /\ cfg' = cfg) =>
              /\ checkedTarget' >= checkedTarget
              /\ sessionDayStart' = sessionDayStart => checkedTarget' = checkedTarget
              /\ sessionDayStart' # sessionDayStart =>
                     /\ sessionDayStart' = sessionDayStart + MsPerDay
                     /\ checkedTarget' = checkedTarget + MsPerDay]_vars

\* the clock has just passed the day start hour 4 under bedtime 01:59: the
\* deadline is that of the new session day
C36_Witness ==
    /\ checkedUnsnoozed
    /\ nTicks = 3
    /\ cfg.dayStartHour = 4
    /\ cfg.bedtime = hhmm(1, 59)
    /\ now = sessionDayStart + 1000
    /\ checkedTarget = sessionDayStart + 21 * MsPerHour + 59 * MsPerMinute

----------------------------------------------------------------------------
(* Properties of a snooze in force *)

\* C37: a time check, by a tick or forced by a change of the configuration,
\* made while now < snoozedUntil takes snoozedUntil as the deadline, finds a
\* positive diff and triggers no hard stop.
C37_NoHardStopWhileSnoozed ==
    (obs.op \in {"tick", "config"} /\ isSnoozed) =>
        /\ ~obs.nan
        /\ checkedTarget = snoozedUntil
        /\ obs.diff > 0
        /\ ~hardStopCalled(obs)
        /\ ~obs.presented

\* a tick under a snooze, two seconds after the configured bedtime
C37_Witness ==
    /\ obs.op = "tick"
    /\ isSnoozed
    /\ hardStopCondition(getTargetBedtimeTimestamp(0, now, cfg) - now)

----------------------------------------------------------------------------
(* Properties of the response to a deadline *)

\* a tick follows a tick, one period later and under the same deadline, no
\* other step of the scheduler in between
tickAfterTick ==
    /\ obs.op = "tick" /\ ~obs.nan
    /\ nTicks' = nTicks + 1
    /\ obs'.op = "tick" /\ ~obs'.nan
    /\ obs'.diff = obs.diff - TickMs

\* C38: of two ticks one period apart under the same deadline, the first
\* less and the second not less than 2000 ms past it, the second is less than
\* 3500 ms past it and calls triggerHardStop, which presents the dialog when
\* none is open; so it is for the configured bedtime and for a snooze that has
\* expired.
C38_HardStopWithinBound ==
    [][(tickAfterTick /\ obs.diff > -GraceMs /\ obs'.diff <= -GraceMs) =>
          /\ obs'.diff > -3500
          /\ hardStopCalled(obs')
          /\ ~isHardStopActive =>
                 /\ obs'.presented
                 /\ isHardStopActive'
                 /\ Len(dialogs') = Len(dialogs) + 1]_vars

\* a snooze has expired and the tick 2 s after it has presented a new dialog
C38_Witness ==
    /\ obs.op = "tick"
    /\ snoozedUntil > 0
    /\ now = snoozedUntil + 2000
    /\ obs.presented
    /\ shownSince = 1
    /\ nTicks >= 3

----------------------------------------------------------------------------
(* Properties of the update check *)

\* C39: in automatic mode the user is notified at most once for a version:
\* once a notification for a version has been shown, no automatic check shows
\* another for it, also when two automatic checks run concurrently and the
\* first notification has not yet been dismissed
C39_NotifiedOncePerVersion ==
    \A i, j \in 1..Len(update.notified) :
        (i < j /\ ~update.notified[j].isManual)
            => update.notified[j].version # update.notified[i].version

----------------------------------------------------------------------------
(* Properties of the slot machine *)

\* a spin starts in this step
spinStarts == slot'.spins = slot.spins + 1

\* a result is reported in this step
resultReported == slot'.reports = slot.reports + 1

\* C40: a spin starts only with shotsLeft > 0, the game active and the phase
\* IDLE or SHOW_WINS; a started spin goes through SPINNING, STOPPING and
\* EVALUATE before the phase returns to IDLE, reports one result and lowers
\* shotsLeft by 1; shotsLeft never goes below 0, gameOver becomes true exactly
\* when shotsLeft reaches 0, and a run has no more spins than its starting energy
C40_SpinsWithinEnergy ==
    /\ [][spinStarts =>
              /\ slot.shotsLeft > 0
              /\ ~slot.gameOver
              /\ slot.phase \in {"IDLE", "SHOW_WINS"}]_vars
    /\ [][(slot.phase # "IDLE" /\ slot'.phase = "IDLE") =>
              /\ slot.path = <<"SPINNING", "STOPPING", "EVALUATE">>
              /\ slot.reports = slot.spins]_vars
    /\ [][resultReported =>
              /\ slot.phase = "EVALUATE"
              /\ slot'.shotsLeft = slot.shotsLeft - 1]_vars
    /\ [](slot.shotsLeft >= 0)
    /\ [][(~slot.gameOver /\ slot'.gameOver) <=>
              (slot.shotsLeft # 0 /\ slot'.shotsLeft = 0)]_vars
    /\ [](slot.debugResets = 0 => slot.spins <= slot.startEnergy)

============================================================================
